---- MODULE Spec2Model ----
(***************************************************************************)
(* A model of the retrieval / synthesis / aggregation core of the ARIA     *)
(* research assistant (package aria):                                      *)
(*   - CitationAwareSynthesizer   (aria/rag/synthesis/citation_aware.py)   *)
(*   - LiteratureAggregator       (aria/connectors/aggregator.py)          *)
(*   - HybridRetriever RRF fusion (aria/rag/retrieval/hybrid.py)           *)
(*   - HybridRetriever.retrieve   (aria/rag/retrieval/hybrid.py)           *)
(*   - SemanticRetriever          (aria/rag/retrieval/semantic.py)         *)
(*   - KeywordRetriever           (aria/rag/retrieval/keyword.py)          *)
(*   - CrossEncoderReranker       (aria/rag/reranking/cross_encoder.py)    *)
(*   - SemanticChunker            (aria/rag/chunking/semantic.py)          *)
(*   - OpenAIEmbedder             (aria/rag/embedding/openai.py)           *)
(*   - connectors' search         (aria/connectors/pubmed.py, ...)         *)
(*   - RAGPipeline.query          (aria/rag/pipeline.py)                   *)
(*   - document ingestion         (aria/worker/tasks/ingestion.py)         *)
(*   - LiteratureQAChain          (aria/llm/chains/literature_qa.py)       *)
(* Each component has its own specification; the variables of the other    *)
(* components stay at their idle values under it.                          *)
(*                                                                         *)
(* Strings the code inspects character by character (answer text, DOIs,    *)
(* titles) are sequences of one-character strings.  Python's None is the   *)
(* value None.  Scores are exact rationals <<numerator, denominator>>.     *)
(***************************************************************************)
EXTENDS Integers, Sequences, FiniteSets, TLC

VARIABLES
    \* CitationAwareSynthesizer
    synClient,      \* self._client: "none" or "created"
    synApiKey,      \* settings.anthropic_api_key is configured
    synPc,          \* position of the synthesize coroutine
    synContext,     \* the context list of the running/last call
    synLlmCalls,    \* client.messages.create calls made by the running/last call
    synResult,      \* SynthesisResult of the last call (None before / on raise)
    \* LiteratureAggregator._deduplicate_results
    dedupPc,        \* "collect" before the call, "done" after it returned
    dedupIn,        \* the list of LiteratureResult passed in
    dedupOut,       \* the list returned
    \* LiteratureAggregator.search
    aggAvailable,   \* keys of self.available_sources
    aggPc,          \* "idle", "gathering", "returned" or "raised"
    aggTasks,       \* the sources a _search_source task was created for, in order
    aggStatus,      \* per source: "none", "created", "running" or "done"
    aggReturned,    \* per source: the list its _search_source task returned
    aggQueried,     \* the sources whose connector.search was called
    aggFailed,      \* the sources whose connector.search raised
    aggResult,      \* the list search returned
    \* HybridRetriever._rrf_fusion
    rrfWeights,     \* <<semantic_weight, keyword_weight>>, in tenths
    rrfPc,          \* "ready" before the call, "done" after it returned
    rrfSemantic,    \* semantic_results
    rrfKeyword,     \* keyword_results
    rrfFused,       \* the list returned
    \* HybridRetriever.retrieve
    hybPc,          \* "idle", "gathering", "returned" or "raised"
    hybTopK,        \* top_k of the running/last call
    hybStatus,      \* per task: "none", "created", "running", "done" or "raised"
    hybReturned,    \* per retrieval task: the list it returned
    hybResult,      \* what retrieve returned: NoList before / on raise
    \* SemanticRetriever.retrieve
    semPc,           \* "idle", "embedding", "searching", "returned" or "raised"
    semStore,        \* the chunk rows of the database
    semFilters,      \* the filters dict of the running/last call
    semTopK,         \* top_k of the running/last call
    semResult,      \* the list retrieve returned
    \* KeywordRetriever.retrieve
    kwPc,            \* "idle", "executing", "returned" or "raised"
    kwRows,          \* the rows of the chunks table, in the order the database returns them
    kwQueryTerms,    \* query_terms of the running/last call
    kwTopK,          \* top_k of the running/last call
    kwFilters,       \* the filters dict of the running/last call
    kwResult,       \* the list retrieve returned
    \* CrossEncoderReranker
    rkModel,         \* self._model: "none", "loaded" or "fallback"
    rkSelfTopK,      \* self.top_k
    rkScheduled,     \* rerank coroutines created and not yet run
    rkCalls,         \* rerank calls that have run
    rkLoadAttempts,  \* times the body of _load_model tried to build the model
    rkLoads,         \* times CrossEncoder(model_name) returned a model
    rkOverlap,      \* two calls were pending together before the model was set
    rkLast,         \* the last call that ran: arguments, branch taken, outcome
    \* SemanticChunker
    chSize,          \* self.chunk_size
    chOverlap,       \* self.chunk_overlap
    chPc,            \* "building" while the caller prepares the document, "done" after chunk returned
    chDoc,           \* the document: its sections, each a name and a list of text pieces
    chSectioned,     \* metadata carries the sections (else only the text is given)
    chChunks,       \* the list chunk returned
    \* OpenAIEmbedder.embed / embed_batch
    embPc,           \* position of the call: "idle", "loop", "requesting", "pausing", "waiting", "returned", "raised"
    embOp,           \* "embed" or "embed_batch"
    embTexts,        \* len(texts); text k of the call is k
    embAttempt,      \* the attempt of the retry decorator that runs
    embI,            \* i, the offset of the next sub-batch
    embBatch,        \* the texts of the request awaited: first and last (0, 0 when none)
    embAll,          \* all_embeddings; the embedding of text k is k
    embUpstream,     \* requests sent to client.embeddings.create by the call
    embFailures,     \* those of them that raised
    embResult,      \* what the call gave its caller
    \* Connector search (PubMedConnector, SemanticScholarConnector) under its retry decorator
    conPc,           \* position of the call: "idle", "searching", "fetching", "waiting", "returned", "raised"
    conSource,       \* the connector called: "pubmed" or "semantic_scholar"
    conAttempts,     \* attempts of search started by the retry decorator
    conPmids,        \* pmids of the running attempt (PubMed)
    conFailures,     \* the error each failed attempt raised, in order
    conUpstream,     \* the results the upstream gave the attempt that returned
    conResult,      \* what the call gave its caller
    \* RAGPipeline.query
    plPc,            \* position of query: "idle", "retrieving", "reranking", "synthesizing", "returned", "raised"
    plRetrieved,     \* retrieved (NoList before retrieve returned)
    plReranked,      \* reranked (NoList before it is set)
    plContext,       \* the context synthesize was called with (NoList before the call)
    plLog,           \* the calls query made and how they ended, in order
    plResult,       \* the RAGPipelineResult returned (NoPipeResult before)
    \* ingest_document / _process_document_async, for one document
    ingPc,           \* position of the run: "idle" (none running), "parsing", "embedding", "storing"
    ingRuns,         \* runs of the task started for the document
    ingDoc,          \* the document's row as committed: status, error_message, chunk_count
    ingStored,       \* the document's rows of chunks as committed: chunk_index and the run that stored it
    ingChunks,       \* len(chunks) of the running run
    ingPending,      \* the chunk rows the session of the running run holds uncommitted
    ingOutcome,     \* how the last run ended: "none", "returned" or "raised"
    \* LiteratureQAChain
    qaIncludeExternal,  \* self.include_external
    qaPc,            \* the node of the graph that runs: "idle", a node, "end" or "raised"
    qaQuery,         \* state["query"]
    qaQueryType,     \* state["query_type"]
    qaInternal,      \* len(state["internal_results"])
    qaExternal,      \* len(state["external_results"])
    qaLog           \* the nodes run, in order

synVars == <<synClient, synApiKey, synPc, synContext, synLlmCalls, synResult>>

dedupVars == <<dedupPc, dedupIn, dedupOut>>

aggVars == <<aggAvailable, aggPc, aggTasks, aggStatus, aggReturned,
             aggQueried, aggFailed, aggResult>>

rrfVars == <<rrfWeights, rrfPc, rrfSemantic, rrfKeyword, rrfFused>>

hybVars == <<hybPc, hybTopK, hybStatus, hybReturned, hybResult>>

semVars == <<semPc, semStore, semFilters, semTopK, semResult>>

kwVars == <<kwPc, kwRows, kwQueryTerms, kwTopK, kwFilters, kwResult>>

rerankVars == <<rkModel, rkSelfTopK, rkScheduled, rkCalls, rkLoadAttempts,
                rkLoads, rkOverlap, rkLast>>

chunkVars == <<chSize, chOverlap, chPc, chDoc, chSectioned, chChunks>>

embedVars == <<embPc, embOp, embTexts, embAttempt, embI, embBatch, embAll, embUpstream, embFailures, embResult>>

connVars == <<conPc, conSource, conAttempts, conPmids, conFailures, conUpstream, conResult>>

pipeVars == <<plPc, plRetrieved, plReranked, plContext, plLog, plResult>>

ingestVars == <<ingPc, ingRuns, ingDoc, ingStored, ingChunks, ingPending, ingOutcome>>

qaVars == <<qaIncludeExternal, qaPc, qaQuery, qaQueryType, qaInternal, qaExternal, qaLog>>

\* The variables each component leaves alone.
notSynVars == <<dedupVars, aggVars, rrfVars, hybVars, semVars, kwVars, rerankVars, chunkVars, embedVars, connVars, pipeVars, ingestVars, qaVars>>
notDedupVars == <<synVars, aggVars, rrfVars, hybVars, semVars, kwVars, rerankVars, chunkVars, embedVars, connVars, pipeVars, ingestVars, qaVars>>
notAggVars == <<synVars, dedupVars, rrfVars, hybVars, semVars, kwVars, rerankVars, chunkVars, embedVars, connVars, pipeVars, ingestVars, qaVars>>
notRrfVars == <<synVars, dedupVars, aggVars, hybVars, semVars, kwVars, rerankVars, chunkVars, embedVars, connVars, pipeVars, ingestVars, qaVars>>
notHybVars == <<synVars, dedupVars, aggVars, rrfVars, semVars, kwVars, rerankVars, chunkVars, embedVars, connVars, pipeVars, ingestVars, qaVars>>
notSemVars == <<synVars, dedupVars, aggVars, rrfVars, hybVars, kwVars, rerankVars, chunkVars, embedVars, connVars, pipeVars, ingestVars, qaVars>>
notKwVars == <<synVars, dedupVars, aggVars, rrfVars, hybVars, semVars, rerankVars, chunkVars, embedVars, connVars, pipeVars, ingestVars, qaVars>>
notRerankVars == <<synVars, dedupVars, aggVars, rrfVars, hybVars, semVars, kwVars, chunkVars, embedVars, connVars, pipeVars, ingestVars, qaVars>>
notChunkVars == <<synVars, dedupVars, aggVars, rrfVars, hybVars, semVars, kwVars, rerankVars, embedVars, connVars, pipeVars, ingestVars, qaVars>>
notEmbedVars == <<synVars, dedupVars, aggVars, rrfVars, hybVars, semVars, kwVars, rerankVars, chunkVars, connVars, pipeVars, ingestVars, qaVars>>
notConnVars == <<synVars, dedupVars, aggVars, rrfVars, hybVars, semVars, kwVars, rerankVars, chunkVars, embedVars, pipeVars, ingestVars, qaVars>>
notPipeVars == <<synVars, dedupVars, aggVars, rrfVars, hybVars, semVars, kwVars, rerankVars, chunkVars, embedVars, connVars, ingestVars, qaVars>>
notIngestVars == <<synVars, dedupVars, aggVars, rrfVars, hybVars, semVars, kwVars, rerankVars, chunkVars, embedVars, connVars, pipeVars, qaVars>>
notQaVars == <<synVars, dedupVars, aggVars, rrfVars, hybVars, semVars, kwVars, rerankVars, chunkVars, embedVars, connVars, pipeVars, ingestVars>>

vars == <<synVars, dedupVars, aggVars, rrfVars, hybVars, semVars, kwVars, rerankVars, chunkVars, embedVars, connVars, pipeVars, ingestVars, qaVars>>

None == "None"

Range(q) == {q[i] : i \in 1..Len(q)}

Min(a, b) == IF a <= b THEN a ELSE b
Max(a, b) == IF a >= b THEN a ELSE b

(***************************************************************************)
(* CitationAwareSynthesizer                                                *)
(***************************************************************************)

\* Longest context list and longest answer text explored.
MaxCtx == 2
MaxAnswerLen == 6

\* Excerpt length of a citation (content[:200]).
ExcerptLen == 200

Digits == {"0", "1", "2"}
AnswerChars == Digits \cup {"[", "]"}

DigitValue(c) == CASE c = "0" -> 0 [] c = "1" -> 1 [] c = "2" -> 2

\* All answer texts of at most MaxAnswerLen characters.
AnswerTexts == UNION {[1..n -> AnswerChars] : n \in 0..MaxAnswerLen}

\* The retrieved chunk at rank i: odd ranks carry a short content, even
\* ranks a content longer than the excerpt, the second one has no title.
ContextChunk(i) ==
    [chunk_id |-> i, document_id |-> (i + 1) \div 2,
     content_len |-> IF i % 2 = 0 THEN ExcerptLen + 50 ELSE 50,
     document_title |-> IF i = 2 THEN None ELSE "title",
     page_number |-> IF i % 2 = 0 THEN None ELSE i,
     score |-> <<10 - i, 10>>]

ContextOf(n) == [i \in 1..n |-> ContextChunk(i)]

\* _format_context: citation_map[i] = chunk for i, chunk in enumerate(context, 1)
FormatContext(context) == [i \in 1..Len(context) |-> context[i]]

\* int(m) of a digit string
RECURSIVE ParseInt(_)
ParseInt(ds) ==
    IF ds = <<>> THEN 0
    ELSE 10 * ParseInt(SubSeq(ds, 1, Len(ds) - 1)) + DigitValue(ds[Len(ds)])

\* First index >= k of s that holds no digit (Len(s)+1 when there is none).
RECURSIVE DigitsEnd(_, _)
DigitsEnd(s, k) ==
    IF k <= Len(s) /\ s[k] \in Digits THEN DigitsEnd(s, k + 1) ELSE k

\* re.compile(r"\[(\d+)\]").findall(s), scanning from index i: the captured
\* digit strings of the non-overlapping matches, left to right.
RECURSIVE FindAll(_, _)
FindAll(s, i) ==
    IF i > Len(s) THEN <<>>
    ELSE IF s[i] = "["
         THEN LET k == DigitsEnd(s, i + 1)
              IN  IF k > i + 1 /\ k <= Len(s) /\ s[k] = "]"
                  THEN <<SubSeq(s, i + 1, k - 1)>> \o FindAll(s, k + 1)
                  ELSE FindAll(s, i + 1)
         ELSE FindAll(s, i + 1)

\* set(int(m) for m in citation_pattern.findall(answer))
UsedCitations(answer) ==
    LET ms == FindAll(answer, 1)
    IN  {ParseInt(ms[p]) : p \in 1..Len(ms)}

\* Mutant of SortedSeq: the used ids are walked in descending order.
RECURSIVE SortedSeqDescending(_)
SortedSeqDescending(S) ==
    IF S = {} THEN <<>>
    ELSE LET m == CHOOSE x \in S : \A y \in S : x >= y
         IN  <<m>> \o SortedSeqDescending(S \ {m})

\* sorted(S) for a finite set of integers
RECURSIVE SortedSeq(_)
SortedSeq(S) ==
    IF S = {} THEN <<>>
    ELSE LET m == CHOOSE x \in S : \A y \in S : x <= y
         IN  <<m>> \o SortedSeq(S \ {m})

MakeCitation(num, chunk) ==
    [citation_id |-> num,
     document_id |-> chunk.document_id,
     chunk_id |-> chunk.chunk_id,
     title |-> IF chunk.document_title = None THEN "Unknown"
               ELSE chunk.document_title,
     excerpt |-> [len |-> Min(chunk.content_len, ExcerptLen),
                  ellipsis |-> chunk.content_len > ExcerptLen],
     page |-> chunk.page_number,
     confidence |-> chunk.score]

\* The loop of _extract_citations over sorted(used_citations).
RECURSIVE CitationLoop(_, _)
CitationLoop(nums, citation_map) ==
    IF nums = <<>> THEN <<>>
    ELSE LET num == Head(nums)
         IN  (IF num \in DOMAIN citation_map
              THEN <<MakeCitation(num, citation_map[num])>>
              ELSE <<>>)
             \o CitationLoop(Tail(nums), citation_map)

ExtractCitations(answer, citation_map) ==
    CitationLoop(SortedSeq(UsedCitations(answer)), citation_map)

\* min(1.0, len(citations) / max(1, len(context) // 2)) as a rational
Confidence(ncit, nctx) ==
    LET d == Max(1, nctx \div 2)
    IN  IF ncit >= d THEN <<1, 1>> ELSE <<ncit, d>>

FallbackAnswer == "insufficient information"

EmptyContextResult ==
    [answer |-> FallbackAnswer, citations |-> <<>>, sources_used |-> 0,
     confidence |-> <<0, 1>>]

SynthInit ==
    /\ synClient = "none"
    /\ synApiKey \in BOOLEAN
    /\ synPc = "idle"
    /\ synContext = <<>>
    /\ synLlmCalls = 0
    /\ synResult = None

\* Mutant of SynthesizeCall: the empty-context short-circuit is missing.
SynthesizeCallNoShortCircuit(n) ==
    /\ synPc \in {"idle", "done", "raised"}
    /\ synContext' = ContextOf(n)
    /\ IF synClient = "none" /\ ~synApiKey
       THEN /\ synResult' = None
            /\ synPc' = "raised"
            /\ synLlmCalls' = 0
            /\ UNCHANGED synClient
       ELSE /\ synClient' = "created"
            /\ synResult' = None
            /\ synPc' = "awaiting_llm"
            /\ synLlmCalls' = 1
    /\ UNCHANGED synApiKey
    /\ UNCHANGED notSynVars

\* synthesize(query, context) up to its first await: the empty-context
\* return, or _get_client() and the completion request.
SynthesizeCall(n) ==
    /\ synPc \in {"idle", "done", "raised"}
    /\ synContext' = ContextOf(n)
    /\ IF n = 0
       THEN /\ synResult' = EmptyContextResult
            /\ synPc' = "done"
            /\ synLlmCalls' = 0
            /\ UNCHANGED synClient
       ELSE IF synClient = "none" /\ ~synApiKey
            THEN \* _get_client raises ValueError
                 /\ synResult' = None
                 /\ synPc' = "raised"
                 /\ synLlmCalls' = 0
                 /\ UNCHANGED synClient
            ELSE /\ synClient' = "created"
                 /\ synResult' = None
                 /\ synPc' = "awaiting_llm"
                 /\ synLlmCalls' = 1
    /\ UNCHANGED synApiKey
    /\ UNCHANGED notSynVars

\* The completion returns some answer text; the rest of synthesize runs.
LLMReturns ==
    /\ synPc = "awaiting_llm"
    /\ \E answer \in AnswerTexts :
         LET citations == ExtractCitations(answer, FormatContext(synContext))
         IN  synResult' =
                 [answer |-> answer, citations |-> citations,
                  sources_used |-> Len(citations),
                  confidence |-> Confidence(Len(citations), Len(synContext))]
    /\ synPc' = "done"
    /\ UNCHANGED <<synClient, synApiKey, synContext, synLlmCalls>>
    /\ UNCHANGED notSynVars

\* The completion request raises; synthesize does not catch it.
LLMRaises ==
    /\ synPc = "awaiting_llm"
    /\ synPc' = "raised"
    /\ UNCHANGED <<synClient, synApiKey, synContext, synLlmCalls, synResult>>
    /\ UNCHANGED notSynVars

SynthNext ==
    \/ \E n \in 0..MaxCtx : SynthesizeCall(n)
    \/ LLMReturns
    \/ LLMRaises


(***************************************************************************)
(* LiteratureAggregator: deduplication and merging                         *)
(***************************************************************************)

\* Longest list of records passed to _deduplicate_results.
MaxRecords == 3

\* title_key = result.title.lower().strip()[:100]
TitleKeyLen == 100

\* An optional string (str | None): None, or a text.
NoneStr == [isNone |-> TRUE, text |-> <<>>]
Str(t) == [isNone |-> FALSE, text |-> t]

\* Truthiness of an optional string: neither None nor "".
Truthy(o) == ~o.isNone /\ o.text # <<>>

\* str.lower() on the letters that occur in the inputs.
LowerChar(c) ==
    CASE c = "X" -> "x"
      [] c = "T" -> "t"
      [] OTHER -> c

StrLower(t) == [i \in 1..Len(t) |-> LowerChar(t[i])]

IsSpace(c) == c = " "

\* str.strip()
RECURSIVE LStrip(_)
LStrip(t) == IF t # <<>> /\ IsSpace(Head(t)) THEN LStrip(Tail(t)) ELSE t

RECURSIVE RStrip(_)
RStrip(t) ==
    IF t # <<>> /\ IsSpace(t[Len(t)]) THEN RStrip(SubSeq(t, 1, Len(t) - 1))
    ELSE t

Strip(t) == RStrip(LStrip(t))

\* t[:n]
Prefix(t, n) == SubSeq(t, 1, Min(Len(t), n))

\* Mutant of TitleKey: the title is not lower-cased.
TitleKeyNoLower(r) == Prefix(Strip(r.title), TitleKeyLen)

TitleKey(r) == Prefix(Strip(StrLower(r.title)), TitleKeyLen)

\* `if result.doi:`
HasDoi(r) == Truthy(r.doi)

\* Mutant of DoiKey: the DOI is not lower-cased.
DoiKeyRaw(r) == r.doi.text

\* result.doi.lower()
DoiKey(r) == StrLower(r.doi.text)

\* dict.update: the keys of both, the values of `b` winning.
DictUpdate(a, b) ==
    [k \in DOMAIN a \cup DOMAIN b |-> IF k \in DOMAIN b THEN b[k] ELSE a[k]]

\* d[key] = value
DictSet(d, key, value) ==
    [k \in DOMAIN d \cup {key} |-> IF k = key THEN value ELSE d[k]]

EmptyDict == [k \in {} |-> 0]

\* Mutant of MergeStep: a later non-empty abstract always replaces the
\* merged one, whatever its length.
MergeStepLastAbstract(merged, result) ==
    [merged EXCEPT
        !.abstract = IF Truthy(result.abstract) THEN result.abstract ELSE @,
        !.authors = IF Len(result.authors) > Len(@) THEN result.authors ELSE @,
        !.score = Max(@, result.score),
        !.metadata = IF DOMAIN result.metadata # {}
                     THEN DictUpdate(@, result.metadata) ELSE @]

\* One pass of the loop `for result in results[1:]` of _merge_results.
MergeStep(merged, result) ==
    [merged EXCEPT
        !.abstract =
            IF Truthy(result.abstract)
               /\ (~Truthy(@) \/ Len(result.abstract.text) > Len(@.text))
            THEN result.abstract ELSE @,
        !.authors = IF Len(result.authors) > Len(@) THEN result.authors ELSE @,
        !.score = Max(@, result.score),
        !.metadata = IF DOMAIN result.metadata # {}
                     THEN DictUpdate(@, result.metadata) ELSE @]

RECURSIVE MergeLoop(_, _)
MergeLoop(merged, rest) ==
    IF rest = <<>> THEN merged
    ELSE MergeLoop(MergeStep(merged, Head(rest)), Tail(rest))

\* Mutant of MergeResults: the sources list leaves out the first record.
MergeResultsSourcesOfRest(results) ==
    IF Len(results) = 1 THEN results[1]
    ELSE LET sources == [i \in 1..(Len(results) - 1) |-> results[i + 1].source]
             merged == MergeLoop(results[1], Tail(results))
         IN  [merged EXCEPT !.metadata = DictSet(@, "sources", sources)]

\* _merge_results.  The code updates results[0] in place and returns it;
\* the value returned is what is modelled.
MergeResults(results) ==
    IF Len(results) = 1 THEN results[1]
    ELSE LET sources == [i \in 1..Len(results) |-> results[i].source]
             merged == MergeLoop(results[1], Tail(results))
         IN  [merged EXCEPT !.metadata = DictSet(@, "sources", sources)]

InSeq(x, q) == \E i \in 1..Len(q) : q[i] = x

\* The keys of by_doi in insertion order.
RECURSIVE DoiKeysInOrder(_, _)
DoiKeysInOrder(results, keys) ==
    IF results = <<>> THEN keys
    ELSE LET r == Head(results)
         IN  DoiKeysInOrder(Tail(results),
                 IF HasDoi(r) /\ ~InSeq(DoiKey(r), keys)
                 THEN Append(keys, DoiKey(r)) ELSE keys)

\* by_doi[key]: the records of that DOI, in input order.
DoiGroup(results, key) ==
    SelectSeq(results, LAMBDA r : HasDoi(r) /\ DoiKey(r) = key)

\* Mutant of NoDoi: the DOI-less records whose title key is not that of a
\* DOI-bearing record.
NoDoiOfNewTitle(results) ==
    SelectSeq(results,
              LAMBDA r : /\ ~HasDoi(r)
                         /\ \A i \in 1..Len(results) :
                                HasDoi(results[i]) => TitleKey(results[i]) # TitleKey(r))

\* no_doi
NoDoi(results) == SelectSeq(results, LAMBDA r : ~HasDoi(r))

\* The loop over no_doi with title_seen.
RECURSIVE TitleLoop(_, _)
TitleLoop(no_doi, title_seen) ==
    IF no_doi = <<>> THEN <<>>
    ELSE LET result == Head(no_doi)
             title_key == TitleKey(result)
         IN  IF title_key \notin title_seen
             THEN <<result>> \o TitleLoop(Tail(no_doi), title_seen \cup {title_key})
             ELSE TitleLoop(Tail(no_doi), title_seen)

DeduplicateResults(results) ==
    LET keys == DoiKeysInOrder(results, <<>>)
        merged == [i \in 1..Len(keys) |-> MergeResults(DoiGroup(results, keys[i]))]
    IN  merged \o TitleLoop(NoDoi(results), {})

\* ---- inputs ----

\* Titles: "T" and " t " have one title key; the two long titles differ
\* only after their first 100 characters.
LongTitle(c) == [i \in 1..(TitleKeyLen + 1) |-> IF i <= TitleKeyLen THEN "a" ELSE c]
Titles == {<<"T">>, <<" ", "t", " ">>, LongTitle("x"), LongTitle("y")}

\* DOI values that count as no DOI (`if result.doi:` is false), and DOIs.
NoDois == {NoneStr, Str(<<>>)}
Dois == {Str(<<"X">>), Str(<<"x">>), Str(<<"y">>)}

SourceNames == <<"pubmed", "arxiv", "semantic_scholar">>

Abstracts == {NoneStr, Str(<<>>), Str(<<"s">>), Str(<<"t">>), Str(<<"l", "o">>)}
AuthorLists == {<<>>, <<"a">>, <<"b">>, <<"a", "b">>}
Scores == {5, 7, 9}
Metadatas ==
    {EmptyDict,
     [k \in {"citations"} |-> 10],
     [k \in {"citations"} |-> 20],
     [k \in {"downloads"} |-> 100],
     [k \in {"sources"} |-> <<"stale">>]}

\* The record at position i of a list: its id and source follow the
\* position, and so do the fields the caller does not choose.
PosRec(i) ==
    [id |-> i,
     title |-> <<"T">>,
     abstract |-> CASE i % 3 = 1 -> Str(<<"s">>)
                    [] i % 3 = 2 -> Str(<<"l", "o">>)
                    [] OTHER -> NoneStr,
     authors |-> CASE i % 3 = 1 -> <<"a">>
                   [] i % 3 = 2 -> <<>>
                   [] OTHER -> <<"a", "b">>,
     year |-> 2000 + i,
     doi |-> Str(<<"X">>),
     source |-> SourceNames[((i - 1) % 3) + 1],
     score |-> CASE i % 3 = 1 -> 9 [] i % 3 = 2 -> 7 [] OTHER -> 5,
     metadata |-> CASE i % 3 = 1 -> [k \in {"citations"} |-> 10]
                    [] i % 3 = 2 -> [k \in {"downloads"} |-> 100]
                    [] OTHER -> EmptyDict]

\* Records that vary in DOI and title: every title without a DOI, and
\* with a DOI a short and a long title.
KeyVariants(i) ==
    {[PosRec(i) EXCEPT !.doi = d, !.title = t] : d \in NoDois, t \in Titles}
    \cup {[PosRec(i) EXCEPT !.doi = d, !.title = t] :
              d \in Dois, t \in {<<"T">>, LongTitle("x")}}

\* Records that vary in one of abstract, authors, score, metadata or the
\* case of the DOI.
PayloadVariants(i) ==
    {[PosRec(i) EXCEPT !.abstract = a] : a \in Abstracts}
    \cup {[PosRec(i) EXCEPT !.authors = a] : a \in AuthorLists}
    \cup {[PosRec(i) EXCEPT !.score = x] : x \in Scores}
    \cup {[PosRec(i) EXCEPT !.metadata = m] : m \in Metadatas}
    \cup {[PosRec(i) EXCEPT !.doi = Str(<<"x">>)]}

\* The lists explored vary, against the records PosRec(i), either the DOI
\* and title of their records or the other fields and the case of the DOI.
IsKeyList(q) ==
    \A i \in 1..Len(q) :
        [q[i] EXCEPT !.doi = PosRec(i).doi, !.title = PosRec(i).title] = PosRec(i)

IsPayloadList(q) ==
    \A i \in 1..Len(q) :
        /\ q[i].title = PosRec(i).title
        /\ q[i].doi \in {Str(<<"X">>), Str(<<"x">>)}

DedupIdle ==
    /\ dedupPc = "collect"
    /\ dedupIn = <<>>
    /\ dedupOut = <<>>

DedupInit == DedupIdle

\* The caller appends one more record to the list it will pass.
Collect ==
    /\ dedupPc = "collect"
    /\ Len(dedupIn) < MaxRecords
    /\ \E r \in KeyVariants(Len(dedupIn) + 1) \cup PayloadVariants(Len(dedupIn) + 1) :
         /\ IsKeyList(Append(dedupIn, r)) \/ IsPayloadList(Append(dedupIn, r))
         /\ dedupIn' = Append(dedupIn, r)
    /\ UNCHANGED <<dedupPc, dedupOut>>
    /\ UNCHANGED notDedupVars

\* _deduplicate_results(results) runs on the list collected.
Deduplicate ==
    /\ dedupPc = "collect"
    /\ dedupOut' = DeduplicateResults(dedupIn)
    /\ dedupPc' = "done"
    /\ UNCHANGED dedupIn
    /\ UNCHANGED notDedupVars

(***************************************************************************)
(* LiteratureAggregator.search                                             *)
(***************************************************************************)

SourceSet == {SourceNames[i] : i \in 1..Len(SourceNames)}

\* The records a source may return: one of a paper all three sources know
\* (the DOI spelled "X" or "x", fields and score differing by source) and
\* one DOI-less record (pubmed and arxiv spell its title differently).
PaperOf(src) ==
    [id |-> <<src, "paper">>,
     title |-> <<"T">>,
     abstract |-> CASE src = "pubmed" -> Str(<<"s">>)
                    [] src = "arxiv" -> Str(<<"l", "o">>)
                    [] OTHER -> NoneStr,
     authors |-> IF src = "semantic_scholar" THEN <<"a", "b">> ELSE <<"a">>,
     year |-> 2020,
     doi |-> IF src = "arxiv" THEN Str(<<"x">>) ELSE Str(<<"X">>),
     source |-> src,
     score |-> CASE src = "pubmed" -> 7 [] src = "arxiv" -> 7 [] OTHER -> 5,
     metadata |-> IF src = "pubmed" THEN EmptyDict
                  ELSE [k \in {"citations"} |-> 10]]

PreprintOf(src) ==
    [id |-> <<src, "preprint">>,
     title |-> CASE src = "pubmed" -> <<"T">>
                 [] src = "arxiv" -> <<" ", "t", " ">>
                 [] OTHER -> LongTitle("x"),
     abstract |-> NoneStr,
     authors |-> <<>>,
     year |-> 2021,
     doi |-> NoneStr,
     source |-> src,
     score |-> CASE src = "pubmed" -> 5 [] src = "arxiv" -> 9 [] OTHER -> 7,
     metadata |-> EmptyDict]

SourceLists(src) ==
    {<<>>, <<PaperOf(src)>>, <<PreprintOf(src)>>, <<PaperOf(src), PreprintOf(src)>>}

\* The subsequence of SourceNames with the names in S.
InOrder(S) == SelectSeq(SourceNames, LAMBDA n : n \in S)

\* x inserted into a list sorted by descending score, after the records
\* whose score is not smaller (list.sort is stable, also with reverse=True).
RECURSIVE InsertByScore(_, _)
InsertByScore(sorted, x) ==
    IF sorted = <<>> THEN <<x>>
    ELSE IF Head(sorted).score >= x.score
         THEN <<Head(sorted)>> \o InsertByScore(Tail(sorted), x)
         ELSE <<x>> \o sorted

\* deduplicated.sort(key=lambda x: x.score, reverse=True)
RECURSIVE SortByScoreDesc(_)
SortByScoreDesc(q) ==
    IF q = <<>> THEN <<>>
    ELSE InsertByScore(SortByScoreDesc(SubSeq(q, 1, Len(q) - 1)), q[Len(q)])

\* all_results: the lists of source_results concatenated in task order.
RECURSIVE CombineResults(_, _)
CombineResults(tasks, returned) ==
    IF tasks = <<>> THEN <<>>
    ELSE returned[Head(tasks)] \o CombineResults(Tail(tasks), returned)

AggIdle ==
    /\ aggAvailable = SourceSet
    /\ aggPc = "idle"
    /\ aggTasks = <<>>
    /\ aggStatus = [n \in SourceSet |-> "none"]
    /\ aggReturned = [n \in SourceSet |-> <<>>]
    /\ aggQueried = {}
    /\ aggFailed = {}
    /\ aggResult = <<>>

\* LiteratureAggregator(sources): the connectors of the requested names
\* (all of them when none is requested).
AggInit ==
    /\ aggAvailable \in (SUBSET SourceSet) \ {{}}
    /\ aggPc = "idle"
    /\ aggTasks = <<>>
    /\ aggStatus = [n \in SourceSet |-> "none"]
    /\ aggReturned = [n \in SourceSet |-> <<>>]
    /\ aggQueried = {}
    /\ aggFailed = {}
    /\ aggResult = <<>>

\* search(query, limit, sources) up to the gather: one _search_source task
\* per requested source that has a connector (every connector when no
\* source is requested).
SearchCall ==
    /\ aggPc = "idle"
    /\ \E sources \in SUBSET SourceSet :
         LET active == IF sources = {} THEN aggAvailable ELSE sources
             tasks == InOrder(active \cap aggAvailable)
         IN  /\ aggTasks' = tasks
             /\ aggStatus' = [n \in SourceSet |->
                                 IF n \in (active \cap aggAvailable)
                                 THEN "created" ELSE "none"]
    /\ aggPc' = "gathering"
    /\ UNCHANGED <<aggAvailable, aggReturned, aggQueried, aggFailed, aggResult>>
    /\ UNCHANGED notAggVars

\* A task starts: _search_source awaits connector.search.
SourceStarts ==
    /\ aggPc = "gathering"
    /\ \E n \in SourceSet :
         /\ aggStatus[n] = "created"
         /\ aggStatus' = [aggStatus EXCEPT ![n] = "running"]
         /\ aggQueried' = aggQueried \cup {n}
    /\ UNCHANGED <<aggAvailable, aggPc, aggTasks, aggReturned, aggFailed, aggResult>>
    /\ UNCHANGED notAggVars

\* connector.search returns a list; so does the task.
SourceReturns ==
    /\ aggPc = "gathering"
    /\ \E n \in SourceSet :
         /\ aggStatus[n] = "running"
         /\ \E found \in SourceLists(n) :
              aggReturned' = [aggReturned EXCEPT ![n] = found]
         /\ aggStatus' = [aggStatus EXCEPT ![n] = "done"]
    /\ UNCHANGED <<aggAvailable, aggPc, aggTasks, aggQueried, aggFailed, aggResult>>
    /\ UNCHANGED notAggVars

\* Mutant of SourceRaises: the exception of connector.search is not caught
\* and ends the search.
SourceRaisesUncaught ==
    /\ aggPc = "gathering"
    /\ \E n \in SourceSet :
         /\ aggStatus[n] = "running"
         /\ aggStatus' = [aggStatus EXCEPT ![n] = "done"]
         /\ aggFailed' = aggFailed \cup {n}
    /\ aggPc' = "raised"
    /\ UNCHANGED <<aggAvailable, aggTasks, aggReturned, aggQueried, aggResult>>
    /\ UNCHANGED notAggVars

\* connector.search raises; _search_source catches, logs and returns [].
SourceRaises ==
    /\ aggPc = "gathering"
    /\ \E n \in SourceSet :
         /\ aggStatus[n] = "running"
         /\ aggStatus' = [aggStatus EXCEPT ![n] = "done"]
         /\ aggReturned' = [aggReturned EXCEPT ![n] = <<>>]
         /\ aggFailed' = aggFailed \cup {n}
    /\ UNCHANGED <<aggAvailable, aggPc, aggTasks, aggQueried, aggResult>>
    /\ UNCHANGED notAggVars

\* The gather completes once every task is done: combine, deduplicate,
\* sort by score, return.
SearchReturns ==
    /\ aggPc = "gathering"
    /\ \A n \in SourceSet : aggStatus[n] \in {"none", "done"}
    /\ aggResult' =
           SortByScoreDesc(DeduplicateResults(CombineResults(aggTasks, aggReturned)))
    /\ aggPc' = "returned"
    /\ UNCHANGED <<aggAvailable, aggTasks, aggStatus, aggReturned, aggQueried, aggFailed>>
    /\ UNCHANGED notAggVars

AggNext ==
    \/ SearchCall
    \/ SourceStarts
    \/ SourceReturns
    \/ SourceRaises
    \/ SearchReturns

DedupNext == Collect \/ Deduplicate

SynthIdle ==
    /\ synClient = "none"
    /\ synApiKey = TRUE
    /\ synPc = "idle"
    /\ synContext = <<>>
    /\ synLlmCalls = 0
    /\ synResult = None

(***************************************************************************)
(* HybridRetriever: reciprocal rank fusion                                 *)
(***************************************************************************)

\* Longest input list of the fusion.
MaxList == 3

\* HybridRetriever.RRF_K
RRF_K == 60

ChunkIds == {"A", "B", "C", "D"}

\* (semantic_weight, keyword_weight) in tenths: the defaults 0.7 / 0.3 and
\* the equal weights 0.5 / 0.5.  Every accumulated score is thereby held
\* in tenths too, which changes neither the order nor the normalized score.
WeightPairs == {<<7, 3>>, <<5, 5>>}

\* ---- exact rationals <<numerator, denominator>>, denominator > 0, in
\* lowest terms ----

RECURSIVE Gcd(_, _)
Gcd(a, b) == IF b = 0 THEN a ELSE Gcd(b, a % b)

Rat(n, d) == LET g == Gcd(n, d) IN <<n \div g, d \div g>>

RatZero == <<0, 1>>
RatAdd(a, b) == Rat(a[1] * b[2] + b[1] * a[2], a[2] * b[2])
RatDiv(a, b) == Rat(a[1] * b[2], a[2] * b[1])
RatLess(a, b) == a[1] * b[2] < b[1] * a[2]

\* The result at rank `rank` of the semantic list / of the keyword list.
SemanticResult(c, rank) ==
    [chunk_id |-> c, score |-> Rat(10 - rank, 10), origin |-> "semantic"]
KeywordResult(c, rank) ==
    [chunk_id |-> c, score |-> Rat(1, rank), origin |-> "keyword"]

\* The duplicate-free sequences of chunk ids of length n.
RECURSIVE InjectiveSeqs(_)
InjectiveSeqs(n) ==
    IF n = 0 THEN {<<>>}
    ELSE UNION {{Append(q, c) : c \in ChunkIds \ Range(q)}
                   : q \in InjectiveSeqs(n - 1)}

RankedIds == UNION {InjectiveSeqs(n) : n \in 0..MaxList}

\* Mutant of ProcessResults: a chunk's score is set from the list at hand
\* instead of being added to what it has.
RECURSIVE ProcessResultsNoAccumulate(_, _, _, _, _)
ProcessResultsNoAccumulate(acc, results, rank, weight, keepFirst) ==
    IF rank > Len(results) THEN acc
    ELSE LET result == results[rank]
             c == result.chunk_id
             had == c \in DOMAIN acc.scores
             rrf_score == Rat(weight, RRF_K + rank)
         IN  ProcessResultsNoAccumulate(
                 [keys |-> IF had THEN acc.keys ELSE Append(acc.keys, c),
                  scores |-> DictSet(acc.scores, c, rrf_score),
                  results_map |->
                      IF keepFirst /\ c \in DOMAIN acc.results_map
                      THEN acc.results_map
                      ELSE DictSet(acc.results_map, c, result)],
                 results, rank + 1, weight, keepFirst)

\* One of the two loops `for rank, result in enumerate(results, 1)`:
\* acc.keys is the insertion order of the dict `scores`; keepFirst is the
\* keyword loop's `if chunk_id not in results_map`.
RECURSIVE ProcessResults(_, _, _, _, _)
ProcessResults(acc, results, rank, weight, keepFirst) ==
    IF rank > Len(results) THEN acc
    ELSE LET result == results[rank]
             c == result.chunk_id
             had == c \in DOMAIN acc.scores
             rrf_score == Rat(weight, RRF_K + rank)
         IN  ProcessResults(
                 [keys |-> IF had THEN acc.keys ELSE Append(acc.keys, c),
                  scores |-> DictSet(acc.scores, c,
                                 RatAdd(IF had THEN acc.scores[c] ELSE RatZero,
                                        rrf_score)),
                  results_map |->
                      IF keepFirst /\ c \in DOMAIN acc.results_map
                      THEN acc.results_map
                      ELSE DictSet(acc.results_map, c, result)],
                 results, rank + 1, weight, keepFirst)

\* id inserted into ids sorted by descending score, after the ids whose
\* score is not smaller (sorted is stable, also with reverse=True).
RECURSIVE InsertId(_, _, _)
InsertId(ids, id, scores) ==
    IF ids = <<>> THEN <<id>>
    ELSE IF ~RatLess(scores[Head(ids)], scores[id])
         THEN <<Head(ids)>> \o InsertId(Tail(ids), id, scores)
         ELSE <<id>> \o ids

\* Mutant of SortedIds: reverse=True is missing.
RECURSIVE SortedIdsAscending(_, _)
SortedIdsAscending(keys, scores) ==
    IF keys = <<>> THEN <<>>
    ELSE LET rest == SortedIdsAscending(SubSeq(keys, 1, Len(keys) - 1), scores)
             id == keys[Len(keys)]
             before == SelectSeq(rest, LAMBDA k : ~RatLess(scores[id], scores[k]))
             after == SelectSeq(rest, LAMBDA k : RatLess(scores[id], scores[k]))
         IN  before \o <<id>> \o after

\* sorted(scores.keys(), key=lambda x: scores[x], reverse=True)
RECURSIVE SortedIds(_, _)
SortedIds(keys, scores) ==
    IF keys = <<>> THEN <<>>
    ELSE InsertId(SortedIds(SubSeq(keys, 1, Len(keys) - 1), scores),
                  keys[Len(keys)], scores)

\* Mutant of MaxScore: the score of the first semantic hit is taken for
\* the maximum.
MaxScoreOfFirstKey(keys, scores) ==
    IF keys = <<>> THEN <<1, 1>> ELSE scores[keys[1]]

\* max(scores.values()) if scores else 1.0
RECURSIVE MaxScore(_, _)
MaxScore(keys, scores) ==
    IF keys = <<>> THEN <<1, 1>>
    ELSE IF Len(keys) = 1 THEN scores[keys[1]]
    ELSE LET m == MaxScore(Tail(keys), scores)
         IN  IF RatLess(scores[Head(keys)], m) THEN m ELSE scores[Head(keys)]

\* _rrf_fusion(semantic_results, keyword_results)
RrfFusion(semantic_results, keyword_results, semantic_weight, keyword_weight) ==
    LET empty == [keys |-> <<>>, scores |-> EmptyDict, results_map |-> EmptyDict]
        afterSemantic ==
            ProcessResults(empty, semantic_results, 1, semantic_weight, FALSE)
        acc == ProcessResults(afterSemantic, keyword_results, 1, keyword_weight, TRUE)
        sorted_ids == SortedIds(acc.keys, acc.scores)
        max_score == MaxScore(acc.keys, acc.scores)
    IN  [p \in 1..Len(sorted_ids) |->
            [acc.results_map[sorted_ids[p]] EXCEPT
                !.score = RatDiv(acc.scores[sorted_ids[p]], max_score)]]

RrfIdle ==
    /\ rrfWeights = <<7, 3>>
    /\ rrfPc = "ready"
    /\ rrfSemantic = <<>>
    /\ rrfKeyword = <<>>
    /\ rrfFused = <<>>

\* A retriever with one of the weight pairs, and the two ranked lists the
\* retrievers have returned.
RrfInit ==
    /\ rrfWeights \in WeightPairs
    /\ rrfPc = "ready"
    /\ \E ids \in RankedIds :
         rrfSemantic = [r \in 1..Len(ids) |-> SemanticResult(ids[r], r)]
    /\ \E ids \in RankedIds :
         rrfKeyword = [r \in 1..Len(ids) |-> KeywordResult(ids[r], r)]
    /\ rrfFused = <<>>

Fuse ==
    /\ rrfPc = "ready"
    /\ rrfFused' = RrfFusion(rrfSemantic, rrfKeyword, rrfWeights[1], rrfWeights[2])
    /\ rrfPc' = "done"
    /\ UNCHANGED <<rrfWeights, rrfSemantic, rrfKeyword>>
    /\ UNCHANGED notRrfVars

RrfNext == Fuse

(***************************************************************************)
(* HybridRetriever.retrieve                                                *)
(***************************************************************************)

\* Largest top_k passed to retrieve.
MaxTopK == 2

\* The two coroutines handed to asyncio.gather.
RetrievalTasks == {"semantic", "keyword"}

\* candidate_k = top_k * 3
CandidateK(top_k) == top_k * 3

\* The list a retriever returns for candidate_k: ranked, without repeats,
\* of at most candidate_k results.
RetrievedLists(task, candidate_k) ==
    {[r \in 1..Len(ids) |->
         IF task = "semantic" THEN SemanticResult(ids[r], r)
         ELSE KeywordResult(ids[r], r)] :
       ids \in {q \in RankedIds : Len(q) <= candidate_k}}

\* A list that may be absent (nothing returned), or present.
NoList == [isNone |-> TRUE, items |-> <<>>]
ListOf(items) == [isNone |-> FALSE, items |-> items]

HybIdle ==
    /\ hybPc = "idle"
    /\ hybTopK = 1
    /\ hybStatus = [t \in RetrievalTasks |-> "none"]
    /\ hybReturned = [t \in RetrievalTasks |-> <<>>]
    /\ hybResult = NoList

HybInit == HybIdle

\* retrieve(query, top_k, filters) up to the await: both coroutines are
\* created and handed to asyncio.gather, which schedules a task for each.
RetrieveCall ==
    /\ hybPc = "idle"
    /\ \E top_k \in 1..MaxTopK : hybTopK' = top_k
    /\ hybStatus' = [t \in RetrievalTasks |-> "created"]
    /\ hybPc' = "gathering"
    /\ UNCHANGED <<hybReturned, hybResult>>
    /\ UNCHANGED notHybVars

\* The event loop runs a scheduled task up to its first await.
RetrievalStarts ==
    /\ hybPc \in {"gathering", "raised"}
    /\ \E t \in RetrievalTasks :
         /\ hybStatus[t] = "created"
         /\ hybStatus' = [hybStatus EXCEPT ![t] = "running"]
    /\ UNCHANGED <<hybPc, hybTopK, hybReturned, hybResult>>
    /\ UNCHANGED notHybVars

\* A retriever's retrieve returns its list.
RetrievalReturns ==
    /\ hybPc \in {"gathering", "raised"}
    /\ \E t \in RetrievalTasks :
         /\ hybStatus[t] = "running"
         /\ \E found \in RetrievedLists(t, CandidateK(hybTopK)) :
              hybReturned' = [hybReturned EXCEPT ![t] = found]
         /\ hybStatus' = [hybStatus EXCEPT ![t] = "done"]
    /\ UNCHANGED <<hybPc, hybTopK, hybResult>>
    /\ UNCHANGED notHybVars

\* A retriever's retrieve raises.
RetrievalRaises ==
    /\ hybPc \in {"gathering", "raised"}
    /\ \E t \in RetrievalTasks :
         /\ hybStatus[t] = "running"
         /\ hybStatus' = [hybStatus EXCEPT ![t] = "raised"]
    /\ UNCHANGED <<hybPc, hybTopK, hybReturned, hybResult>>
    /\ UNCHANGED notHybVars

\* gather (return_exceptions is False) hands the first exception to the
\* awaiting retrieve, which has no handler: retrieve raises.  The other
\* task is not cancelled.
GatherRaises ==
    /\ hybPc = "gathering"
    /\ \E t \in RetrievalTasks : hybStatus[t] = "raised"
    /\ hybPc' = "raised"
    /\ UNCHANGED <<hybTopK, hybStatus, hybReturned, hybResult>>
    /\ UNCHANGED notHybVars

\* Mutant of GatherReturns: the fusion does not wait for the keyword task.
GatherReturnsWithoutKeyword ==
    /\ hybPc = "gathering"
    /\ hybStatus["semantic"] = "done"
    /\ hybResult' = ListOf(Prefix(RrfFusion(hybReturned["semantic"],
                                            hybReturned["keyword"],
                                            rrfWeights[1], rrfWeights[2]),
                                  hybTopK))
    /\ hybPc' = "returned"
    /\ UNCHANGED <<hybTopK, hybStatus, hybReturned>>
    /\ UNCHANGED notHybVars

\* gather completes once both tasks have returned; retrieve fuses the two
\* lists and returns fused_results[:top_k].
GatherReturns ==
    /\ hybPc = "gathering"
    /\ \A t \in RetrievalTasks : hybStatus[t] = "done"
    /\ hybResult' = ListOf(Prefix(RrfFusion(hybReturned["semantic"],
                                            hybReturned["keyword"],
                                            rrfWeights[1], rrfWeights[2]),
                                  hybTopK))
    /\ hybPc' = "returned"
    /\ UNCHANGED <<hybTopK, hybStatus, hybReturned>>
    /\ UNCHANGED notHybVars

HybNext ==
    \/ RetrieveCall
    \/ RetrievalStarts
    \/ RetrievalReturns
    \/ RetrievalRaises
    \/ GatherRaises
    \/ GatherReturns

(***************************************************************************)
(* SemanticRetriever.retrieve over PgVectorStore                           *)
(***************************************************************************)

\* Rows of the chunks table joined with documents: two documents with an
\* "intro" and a "methods" chunk each, and a chunk without an embedding.
\* The similarity to the query (in tenths) differs per chunk.
ChunkRows ==
    {[id |-> "c1", document_id |-> "d1", section |-> "intro",
      similarity |-> 9, has_embedding |-> TRUE],
     [id |-> "c2", document_id |-> "d2", section |-> "methods",
      similarity |-> 8, has_embedding |-> TRUE],
     [id |-> "c3", document_id |-> "d1", section |-> "methods",
      similarity |-> 7, has_embedding |-> TRUE],
     [id |-> "c4", document_id |-> "d2", section |-> "intro",
      similarity |-> 6, has_embedding |-> TRUE],
     [id |-> "c5", document_id |-> "d1", section |-> "intro",
      similarity |-> 5, has_embedding |-> FALSE]}

\* The filters a caller passes: none, a single document id, a section, or
\* a set of document ids.
FilterDicts ==
    {EmptyDict}
    \cup {[k \in {"document_id"} |-> doc] : doc \in {"d1", "d2"}}
    \cup {[k \in {"section"} |-> sec] : sec \in {"intro", "methods"}}
    \cup {[k \in {"document_ids"} |-> docs] : docs \in {{"d1"}, {"d2"}, {"d1", "d2"}}}

\* ORDER BY similarity DESC
RECURSIVE OrderBySimilarityDesc(_)
OrderBySimilarityDesc(rows) ==
    IF rows = {} THEN <<>>
    ELSE LET top == CHOOSE r \in rows : \A o \in rows : o.similarity <= r.similarity
         IN  <<top>> \o OrderBySimilarityDesc(rows \ {top})

\* A VectorSearchResult / RetrievalResult of a row.
ResultOfRow(row) ==
    [chunk_id |-> row.id, document_id |-> row.document_id,
     section |-> row.section, score |-> row.similarity]

\* PgVectorStore.search_with_document_info: the rows with an embedding,
\* by descending similarity, limited to top_k.  The `filters` argument is
\* not used by the query.
SearchWithDocumentInfo(store, top_k, filters) ==
    LET rows == {r \in store : r.has_embedding}
        ordered == OrderBySimilarityDesc(rows)
    IN  [p \in 1..Min(top_k, Len(ordered)) |-> ResultOfRow(ordered[p])]

SemIdle ==
    /\ semPc = "idle"
    /\ semStore = {}
    /\ semFilters = EmptyDict
    /\ semTopK = 1
    /\ semResult = <<>>

\* The database holds any of the rows.
SemInit ==
    /\ semPc = "idle"
    /\ semStore \in SUBSET ChunkRows
    /\ semFilters = EmptyDict
    /\ semTopK = 1
    /\ semResult = <<>>

\* retrieve(query, top_k, filters) up to `await self.embedder.embed(query)`.
SemRetrieveCall ==
    /\ semPc = "idle"
    /\ \E filters \in FilterDicts : semFilters' = filters
    /\ \E top_k \in 1..(MaxTopK * 3) : semTopK' = top_k
    /\ semPc' = "embedding"
    /\ UNCHANGED <<semStore, semResult>>
    /\ UNCHANGED notSemVars

\* The embedder returns the query embedding.
SemEmbedReturns ==
    /\ semPc = "embedding"
    /\ semPc' = "searching"
    /\ UNCHANGED <<semStore, semFilters, semTopK, semResult>>
    /\ UNCHANGED notSemVars

\* The embedder raises; retrieve has no handler.
SemEmbedRaises ==
    /\ semPc = "embedding"
    /\ semPc' = "raised"
    /\ UNCHANGED <<semStore, semFilters, semTopK, semResult>>
    /\ UNCHANGED notSemVars

\* search_with_document_info returns; retrieve converts and returns.
SemSearchReturns ==
    /\ semPc = "searching"
    /\ semResult' = SearchWithDocumentInfo(semStore, semTopK, semFilters)
    /\ semPc' = "returned"
    /\ UNCHANGED <<semStore, semFilters, semTopK>>
    /\ UNCHANGED notSemVars

SemNext ==
    \/ SemRetrieveCall
    \/ SemEmbedReturns
    \/ SemEmbedRaises
    \/ SemSearchReturns

(***************************************************************************)
(* KeywordRetriever.retrieve (BM25)                                        *)
(***************************************************************************)

\* KeywordRetriever.K1 and KeywordRetriever.B, in tenths and hundredths.
K1Tenths == 12
BHundredths == 75

\* Characters re's \w does not match, among those of the inputs.
IsWordChar(c) == c \notin {" ", "-", ",", "."}

\* The stopwords of more than two characters that matter for the inputs
\* (shorter ones never pass the length test).
Stopwords ==
    {<<"t", "h", "e">>,
     <<"a", "r", "e">>,
     <<"w", "a", "s">>,
     <<"w", "e", "r", "e">>,
     <<"b", "e", "e", "n">>,
     <<"h", "a", "v", "e">>,
     <<"h", "a", "s">>,
     <<"h", "a", "d">>,
     <<"a", "n", "d">>,
     <<"f", "o", "r">>,
     <<"w", "i", "t", "h">>,
     <<"f", "r", "o", "m">>,
     <<"n", "o", "t">>,
     <<"t", "h", "i", "s">>,
     <<"t", "h", "a", "t">>}

\* re.findall(r"\b\w+\b", text): the maximal runs of word characters;
\* `run` is the run being read.
RECURSIVE FindWords(_, _)
FindWords(text, run) ==
    IF text = <<>> THEN (IF run = <<>> THEN <<>> ELSE <<run>>)
    ELSE IF IsWordChar(Head(text)) THEN FindWords(Tail(text), Append(run, Head(text)))
    ELSE (IF run = <<>> THEN <<>> ELSE <<run>>) \o FindWords(Tail(text), <<>>)

\* _tokenize(text)
Tokenize(text) ==
    SelectSeq(FindWords(StrLower(text), <<>>),
              LAMBDA t : Len(t) > 2 /\ t \notin Stopwords)

\* Counter(content_terms)[term]
TermFreq(terms, term) == Cardinality({i \in 1..Len(terms) : terms[i] = term})

\* term_doc_freq[term]: incremented once per row holding the term for
\* every occurrence of the term in query_terms.
TermDocFreq(rows, query_terms, term) ==
    TermFreq(query_terms, term)
        * Cardinality({i \in 1..Len(rows) : term \in Range(Tokenize(rows[i].content))})

\* 1000 * log((doc_count - df + 0.5) / (df + 0.5) + 1), rounded, for
\* doc_count in 1..4 (row) and df in 0..2 * doc_count (column, from 0).
IdfTable ==
    <<<<1386, 288, -223>>,
      <<1792, 693, 182, -154, -405>>,
      <<2079, 981, 470, 134, -118, -318, -486>>,
      <<2303, 1204, 693, 357, 105, -95, -262, -405, -531>>>>

IdfMilli(doc_count, df) == IdfTable[doc_count][df + 1]

\* 1000 * (tf * (K1 + 1)) / (tf + K1 * (1 - B + B * doc_len / avg_doc_len)),
\* rounded down, with avg_doc_len = total_len / doc_count.
TfComponentMilli(tf, doc_len, total_len, doc_count) ==
    (1000 * (100 * tf * (K1Tenths + 10) * total_len))
        \div (1000 * tf * total_len
                + K1Tenths * ((100 - BHundredths) * total_len
                                + BHundredths * doc_len * doc_count))

RECURSIVE SumTokenCount(_)
SumTokenCount(rows) ==
    IF rows = <<>> THEN 0 ELSE Head(rows).token_count + SumTokenCount(Tail(rows))

\* The loop `for term in query_terms` over the terms from position i:
\* the BM25 score of a row in thousandths.
RECURSIVE ScoreMilli(_, _, _, _)
ScoreMilli(row, rows, query_terms, i) ==
    IF i > Len(query_terms) THEN 0
    ELSE LET term == query_terms[i]
             tf == TermFreq(Tokenize(row.content), term)
             idf == IdfMilli(Len(rows), TermDocFreq(rows, query_terms, term))
             part == IF tf > 0
                     THEN (idf * TfComponentMilli(tf, row.token_count,
                                                  SumTokenCount(rows), Len(rows)))
                              \div 1000
                     ELSE 0
         IN  part + ScoreMilli(row, rows, query_terms, i + 1)

\* scored_results: the rows of positive score with their score, in row order.
ScoredResults(rows, query_terms) ==
    LET scored == [i \in 1..Len(rows) |->
                      [chunk_id |-> rows[i].id, document_id |-> rows[i].document_id,
                       raw |-> ScoreMilli(rows[i], rows, query_terms, 1)]]
    IN  SelectSeq(scored, LAMBDA r : r.raw > 0)

\* Mutant of SortScoredDesc: ties come out in reverse input order (an
\* ascending sort, reversed).
RECURSIVE SortScoredReversedAscending(_)
SortScoredReversedAscending(scored) ==
    IF scored = <<>> THEN <<>>
    ELSE LET x == Head(scored)
             rest == SortScoredReversedAscending(Tail(scored))
         IN  SelectSeq(rest, LAMBDA r : r.raw >= x.raw) \o <<x>>
                 \o SelectSeq(rest, LAMBDA r : r.raw < x.raw)

\* scored_results.sort(key=lambda x: x[0], reverse=True): stable.
RECURSIVE SortScoredDesc(_)
SortScoredDesc(scored) ==
    IF scored = <<>> THEN <<>>
    ELSE LET x == scored[Len(scored)]
             rest == SortScoredDesc(SubSeq(scored, 1, Len(scored) - 1))
         IN  SelectSeq(rest, LAMBDA r : r.raw >= x.raw) \o <<x>>
                 \o SelectSeq(rest, LAMBDA r : r.raw < x.raw)

RECURSIVE MaxRaw(_)
MaxRaw(results) ==
    IF Len(results) = 1 THEN results[1].raw
    ELSE Max(Head(results).raw, MaxRaw(Tail(results)))

\* The tail of retrieve: sort, truncate to top_k, normalize by the maximum.
RankAndNormalize(scored, top_k) ==
    LET results == Prefix(SortScoredDesc(scored), top_k)
    IN  IF results = <<>> THEN <<>>
        ELSE LET max_score == MaxRaw(results)
             IN  [p \in 1..Len(results) |->
                     [chunk_id |-> results[p].chunk_id,
                      document_id |-> results[p].document_id,
                      score |-> IF max_score > 0
                                THEN Rat(results[p].raw, max_score)
                                ELSE Rat(results[p].raw, 1000)]]

\* The WHERE clauses of the statement: document_id and document_ids,
\* each when present and truthy.
KwWhere(rows, filters) ==
    SelectSeq(rows, LAMBDA r :
        /\ ("document_id" \in DOMAIN filters) => r.document_id = filters["document_id"]
        /\ ("document_ids" \in DOMAIN filters /\ filters["document_ids"] # {})
              => r.document_id \in filters["document_ids"])

\* ---- inputs ----

\* The chunks table: rows 1 and 4 have the same content and length.
KwTable ==
    <<[id |-> "k1", document_id |-> "d1", token_count |-> 4,
       content |-> <<"g", "l", "a", "s", "s", " ", "f", "i", "b", "e", "r", " ", "o", "p", "t", "i", "c", "s", " ", "a", "d", "v", "a", "n", "c", "e", "s">>],
      [id |-> "k2", document_id |-> "d2", token_count |-> 3,
       content |-> <<"u", "n", "r", "e", "l", "a", "t", "e", "d", " ", "b", "i", "o", "l", "o", "g", "y", " ", "t", "e", "x", "t">>],
      [id |-> "k3", document_id |-> "d1", token_count |-> 6,
       content |-> <<"t", "h", "e", " ", "T", "e", "x", "t", " ", "o", "f", " ", "g", "l", "a", "s", "s", ",", " ", "g", "l", "a", "s", "s", "-", "f", "i", "b", "e", "r", " ", "a", "n", "d", " ", "a", " ", "l", "e", "n", "s">>],
      [id |-> "k4", document_id |-> "d2", token_count |-> 4,
       content |-> <<"g", "l", "a", "s", "s", " ", "f", "i", "b", "e", "r", " ", "o", "p", "t", "i", "c", "s", " ", "a", "d", "v", "a", "n", "c", "e", "s">>]>>

KwQueries ==
    {<<"g", "l", "a", "s", "s", " ", "f", "i", "b", "e", "r">>,
     <<"t", "h", "e", " ", "o", "f", " ", "a", "n">>,
     <<"T", "e", "x", "t">>,
     <<"o", "p", "t", "i", "c", "s", " ", "t", "e", "x", "t", " ", "g", "l", "a", "s", "s">>,
     <<"g", "l", "a", "s", "s", " ", "g", "l", "a", "s", "s">>}

KwFilters ==
    {EmptyDict,
     [k \in {"document_id"} |-> "d1"],
     [k \in {"document_ids"} |-> {"d2"}],
     [k \in {"document_ids"} |-> {}]}

KwIdle ==
    /\ kwPc = "idle"
    /\ kwRows = <<>>
    /\ kwQueryTerms = <<>>
    /\ kwTopK = 1
    /\ kwFilters = EmptyDict
    /\ kwResult = <<>>

\* The table holds any of the rows, in id order.
KwInit ==
    /\ kwPc = "idle"
    /\ \E S \in SUBSET (1..Len(KwTable)) :
         kwRows = SelectSeq(KwTable, LAMBDA r : \E i \in S : KwTable[i] = r)
    /\ kwQueryTerms = <<>>
    /\ kwTopK = 1
    /\ kwFilters = EmptyDict
    /\ kwResult = <<>>

\* retrieve(query, top_k, filters) up to `await session.execute(stmt)`;
\* a query without terms returns [] at once.
KwRetrieveCall ==
    /\ kwPc = "idle"
    /\ \E query \in KwQueries, top_k \in 1..MaxTopK, filters \in KwFilters :
         /\ kwQueryTerms' = Tokenize(query)
         /\ kwTopK' = top_k
         /\ kwFilters' = filters
         /\ kwPc' = IF Tokenize(query) = <<>> THEN "returned" ELSE "executing"
    /\ kwResult' = <<>>
    /\ UNCHANGED kwRows
    /\ UNCHANGED notKwVars

\* The statement returns its rows; retrieve scores, sorts, truncates,
\* normalizes and returns.
KwExecuteReturns ==
    /\ kwPc = "executing"
    /\ LET rows == KwWhere(kwRows, kwFilters)
       IN  kwResult' = IF rows = <<>> THEN <<>>
                       ELSE RankAndNormalize(ScoredResults(rows, kwQueryTerms), kwTopK)
    /\ kwPc' = "returned"
    /\ UNCHANGED <<kwRows, kwQueryTerms, kwTopK, kwFilters>>
    /\ UNCHANGED notKwVars

\* The statement raises; retrieve closes its session and raises.
KwExecuteRaises ==
    /\ kwPc = "executing"
    /\ kwPc' = "raised"
    /\ UNCHANGED <<kwRows, kwQueryTerms, kwTopK, kwFilters, kwResult>>
    /\ UNCHANGED notKwVars

KwNext ==
    \/ KwRetrieveCall
    \/ KwExecuteReturns
    \/ KwExecuteRaises

(***************************************************************************)
(* CrossEncoderReranker                                                    *)
(***************************************************************************)

\* Longest candidate list passed to rerank, and most rerank calls made on
\* one reranker.
MaxCand == 3
MaxCalls == 2

\* settings.rag_rerank_top_k
RerankTopKDefault == 5

\* Pre-existing (fused) scores of the candidates, in tenths, and the raw
\* relevance scores the cross-encoder may predict.
CandScores == {2, 5, 9}
RawScores == {-2, 0}

\* What `from sentence_transformers import CrossEncoder` followed by
\* CrossEncoder(self.model_name) can do: return a model, raise ImportError
\* (package missing), or raise another exception (model files missing or
\* unreadable, no network, out of memory).
LoadOutcomes == {"model", "ImportError", "OSError"}

\* The candidate lists: the candidate at position i has chunk id i.
RECURSIVE CandLists(_)
CandLists(n) ==
    IF n = 0 THEN {<<>>}
    ELSE {Append(q, [chunk_id |-> n, score |-> <<s, 10>>, metadata |-> EmptyDict]) :
              q \in CandLists(n - 1), s \in CandScores}

RerankInputs == UNION {CandLists(n) : n \in 0..MaxCand}

\* The scores model.predict returns for n pairs.
Predictions(n) == [1..n -> RawScores]

\* A pair <<key, result>> inserted into a list sorted by descending key,
\* after the pairs whose key is not smaller (stable, reverse=True).
RECURSIVE InsertByKeyDesc(_, _)
InsertByKeyDesc(sorted, x) ==
    IF sorted = <<>> THEN <<x>>
    ELSE IF Head(sorted)[1] >= x[1]
         THEN <<Head(sorted)>> \o InsertByKeyDesc(Tail(sorted), x)
         ELSE <<x>> \o sorted

RECURSIVE SortByKeyDesc(_)
SortByKeyDesc(pairs) ==
    IF pairs = <<>> THEN <<>>
    ELSE InsertByKeyDesc(SortByKeyDesc(SubSeq(pairs, 1, Len(pairs) - 1)),
                         pairs[Len(pairs)])

\* Mutant of FallbackRerank: the truncation to top_k is missing.
FallbackRerankAll(results, top_k) ==
    LET keyed == [i \in 1..Len(results) |-> <<results[i].score[1], results[i]>>]
        sorted_results == SortByKeyDesc(keyed)
    IN  [p \in 1..Len(sorted_results) |-> sorted_results[p][2]]

\* sorted(results, key=lambda x: x.score, reverse=True)[:top_k]
\* (all scores are tenths, so the numerator is the key).
FallbackRerank(results, top_k) ==
    LET keyed == [i \in 1..Len(results) |-> <<results[i].score[1], results[i]>>]
        sorted_results == SortByKeyDesc(keyed)
    IN  [p \in 1..Min(top_k, Len(sorted_results)) |-> sorted_results[p][2]]

RECURSIVE MaxOf(_)
MaxOf(scores) ==
    IF Len(scores) = 1 THEN scores[1] ELSE Max(Head(scores), MaxOf(Tail(scores)))

RECURSIVE MinOf(_)
MinOf(scores) ==
    IF Len(scores) = 1 THEN scores[1] ELSE Min(Head(scores), MinOf(Tail(scores)))

\* scores.any(): some score is not zero.
AnyNonZero(scores) == \E i \in 1..Len(scores) : scores[i] # 0

\* Mutant of ScoreRange: no guard for max_score = min_score.
ScoreRangeUnguarded(max_score, min_score) == max_score - min_score

\* score_range = max_score - min_score if max_score != min_score else 1.0
ScoreRange(max_score, min_score) ==
    IF max_score # min_score THEN max_score - min_score ELSE 1

\* (score - min_score) / score_range; a zero score_range raises
\* ZeroDivisionError, written as the quotient <<0, 0>>.
Normalized(score, min_score, score_range) ==
    IF score_range = 0 THEN <<0, 0>>
    ELSE Rat(score - min_score, score_range)

\* Lines 89-116: rerank with a loaded model and its predicted scores.
ModelRerank(results, scores, top_k) ==
    LET scored_results ==
            SortByKeyDesc([i \in 1..Len(results) |-> <<scores[i], results[i]>>])
        max_score == IF AnyNonZero(scores) THEN MaxOf(scores) ELSE 1
        min_score == IF AnyNonZero(scores) THEN MinOf(scores) ELSE 0
        score_range == ScoreRange(max_score, min_score)
    IN  [p \in 1..Min(top_k, Len(scored_results)) |->
            [scored_results[p][2] EXCEPT
                !.score = Normalized(scored_results[p][1], min_score, score_range),
                !.metadata = DictSet(@, "rerank_score", scored_results[p][1])]]

\* Mutant of LoadModel: the test `self._model is None` is missing.
LoadModelAlways(model, outcome) ==
    CASE outcome = "model" ->
             [model |-> "loaded", attempted |-> TRUE, raised |-> FALSE]
      [] outcome = "ImportError" ->
             [model |-> "fallback", attempted |-> TRUE, raised |-> FALSE]
      [] OTHER ->
             [model |-> model, attempted |-> TRUE, raised |-> TRUE]

\* _load_model(): nothing when self._model is set; otherwise the load,
\* of which only ImportError is caught.  Gives the new self._model,
\* whether the load was attempted and whether an exception leaves.
LoadModel(model, outcome) ==
    IF model # "none" THEN [model |-> model, attempted |-> FALSE, raised |-> FALSE]
    ELSE CASE outcome = "model" ->
                  [model |-> "loaded", attempted |-> TRUE, raised |-> FALSE]
           [] outcome = "ImportError" ->
                  [model |-> "fallback", attempted |-> TRUE, raised |-> FALSE]
           [] OTHER ->
                  [model |-> "none", attempted |-> TRUE, raised |-> TRUE]

NoCall ==
    [results |-> <<>>, top_k |-> 0, outcome |-> "none", scores |-> <<>>,
     branch |-> "none", status |-> "none", returned |-> <<>>]

RerankIdle ==
    /\ rkModel = "none"
    /\ rkSelfTopK = RerankTopKDefault
    /\ rkScheduled = 0
    /\ rkCalls = 0
    /\ rkLoadAttempts = 0
    /\ rkLoads = 0
    /\ rkOverlap = FALSE
    /\ rkLast = NoCall

\* CrossEncoderReranker(): self.top_k is the setting; the model is not
\* loaded.
RerankInit ==
    /\ rkModel = "none"
    /\ rkSelfTopK = RerankTopKDefault
    /\ rkScheduled = 0
    /\ rkCalls = 0
    /\ rkLoadAttempts = 0
    /\ rkLoads = 0
    /\ rkOverlap = FALSE
    /\ rkLast = NoCall

\* A caller creates a rerank coroutine (awaits it, or hands it to gather
\* with others); it has not run yet.
RerankScheduled ==
    /\ rkCalls + rkScheduled < MaxCalls
    /\ rkLast = NoCall
    /\ rkScheduled' = rkScheduled + 1
    /\ rkOverlap' = (rkOverlap \/ (rkScheduled >= 1 /\ rkModel = "none"))
    /\ UNCHANGED <<rkModel, rkSelfTopK, rkCalls, rkLoadAttempts, rkLoads, rkLast>>
    /\ UNCHANGED notRerankVars

\* The event loop runs one scheduled rerank coroutine; its body has no
\* await, so it runs to its return or raise in one step.  top_k = 0
\* stands for None.  The outcome of the previous call has been taken.
RerankRuns ==
    /\ rkScheduled > 0
    /\ rkLast = NoCall
    /\ \E results \in RerankInputs, top_k_arg \in 0..MaxTopK, outcome \in LoadOutcomes :
         LET top_k == IF top_k_arg # 0 THEN top_k_arg ELSE rkSelfTopK
             load == LoadModel(rkModel, outcome)
             call == [NoCall EXCEPT !.results = results, !.top_k = top_k]
         IN  IF results = <<>>
             THEN /\ rkLast' = [call EXCEPT !.top_k = top_k_arg, !.branch = "empty",
                                            !.status = "returned"]
                  /\ UNCHANGED <<rkModel, rkLoadAttempts, rkLoads>>
             ELSE /\ rkModel' = load.model
                  /\ rkLoadAttempts' = rkLoadAttempts + (IF load.attempted THEN 1 ELSE 0)
                  /\ rkLoads' = rkLoads
                        + (IF load.attempted /\ load.model = "loaded" THEN 1 ELSE 0)
                  /\ IF load.raised
                     THEN rkLast' = [call EXCEPT !.outcome = outcome, !.branch = "load",
                                                 !.status = "raised"]
                     ELSE IF load.model = "fallback"
                     THEN rkLast' = [call EXCEPT
                                        !.outcome = IF load.attempted THEN outcome ELSE "none",
                                        !.branch = "fallback", !.status = "returned",
                                        !.returned = FallbackRerank(results, top_k)]
                     ELSE \E scores \in Predictions(Len(results)) :
                            rkLast' = [call EXCEPT
                                        !.outcome = IF load.attempted THEN outcome ELSE "none",
                                        !.scores = scores,
                                        !.branch = "model", !.status = "returned",
                                        !.returned = ModelRerank(results, scores, top_k)]
    /\ rkScheduled' = rkScheduled - 1
    /\ rkCalls' = rkCalls + 1
    /\ UNCHANGED <<rkSelfTopK, rkOverlap>>
    /\ UNCHANGED notRerankVars

\* The caller that awaited the call takes what it returned or raised.
RerankResultTaken ==
    /\ rkLast # NoCall
    /\ rkLast' = NoCall
    /\ UNCHANGED <<rkModel, rkSelfTopK, rkScheduled, rkCalls, rkLoadAttempts,
                   rkLoads, rkOverlap>>
    /\ UNCHANGED notRerankVars

RerankNext ==
    \/ RerankScheduled
    \/ RerankRuns
    \/ RerankResultTaken

(***************************************************************************)
(* SemanticChunker                                                         *)
(***************************************************************************)

\* Most text pieces in a document, and most tokens in one sentence.
MaxPieces == 4
MaxSentTokens == 3

\* chunk_size and chunk_overlap of the chunkers explored.
ChunkSizes == {2, 3, 4}
ChunkOverlaps == {1, 2, 3}

SectionNames == <<"intro", "methods">>

\* A text is a sequence of pieces [id, tokens]: the pieces between the
\* sentence boundaries of the text.  A piece of 0 tokens is blank.  A
\* piece of t tokens has 2 * t characters.
PieceChars(piece) == 2 * piece.tokens

\* len(text): the pieces and one blank between neighbours.
RECURSIVE TextLen(_)
TextLen(text) ==
    IF text = <<>> THEN 0
    ELSE IF Len(text) = 1 THEN PieceChars(text[1])
    ELSE PieceChars(Head(text)) + 1 + TextLen(Tail(text))

\* count_tokens(text): the tokens of its pieces.
RECURSIVE CountTokens(_)
CountTokens(text) ==
    IF text = <<>> THEN 0 ELSE Head(text).tokens + CountTokens(Tail(text))

\* " ".join(texts)
RECURSIVE Join(_)
Join(texts) == IF texts = <<>> THEN <<>> ELSE Head(texts) \o Join(Tail(texts))

\* _split_sentences(text): the pieces that are not blank, one text each.
RECURSIVE SplitSentences(_)
SplitSentences(text) ==
    IF text = <<>> THEN <<>>
    ELSE (IF Head(text).tokens > 0 THEN <<<<Head(text)>>>> ELSE <<>>)
             \o SplitSentences(Tail(text))

\* Mutant of OverlapLoop: a sentence that does not fit is skipped and the
\* loop goes on to the sentences before it.
RECURSIVE OverlapLoopSkipping(_, _, _, _, _)
OverlapLoopSkipping(sentences, i, overlap_sentences, overlap_tokens, chunk_overlap) ==
    IF i = 0 THEN [text |-> Join(overlap_sentences), tokens |-> overlap_tokens]
    ELSE LET sentence_tokens == CountTokens(sentences[i])
         IN  IF overlap_tokens + sentence_tokens <= chunk_overlap
             THEN OverlapLoopSkipping(sentences, i - 1,
                                      <<sentences[i]>> \o overlap_sentences,
                                      overlap_tokens + sentence_tokens, chunk_overlap)
             ELSE OverlapLoopSkipping(sentences, i - 1, overlap_sentences,
                                      overlap_tokens, chunk_overlap)

\* The loop of _get_overlap over reversed(sentences), at sentence i.
RECURSIVE OverlapLoop(_, _, _, _, _)
OverlapLoop(sentences, i, overlap_sentences, overlap_tokens, chunk_overlap) ==
    IF i = 0 THEN [text |-> Join(overlap_sentences), tokens |-> overlap_tokens]
    ELSE LET sentence_tokens == CountTokens(sentences[i])
         IN  IF overlap_tokens + sentence_tokens <= chunk_overlap
             THEN OverlapLoop(sentences, i - 1, <<sentences[i]>> \o overlap_sentences,
                              overlap_tokens + sentence_tokens, chunk_overlap)
             ELSE [text |-> Join(overlap_sentences), tokens |-> overlap_tokens]

\* _get_overlap(sentences)
GetOverlap(sentences, chunk_overlap) ==
    IF sentences = <<>> THEN [text |-> <<>>, tokens |-> 0]
    ELSE OverlapLoop(sentences, Len(sentences), <<>>, 0, chunk_overlap)

\* Chunk(content=" ".join(current_chunk), ...)
MakeChunk(current_chunk, chunk_index, current_tokens, section_name, current_start) ==
    [content |-> Join(current_chunk),
     chunk_index |-> chunk_index,
     token_count |-> current_tokens,
     section |-> section_name,
     start_char |-> current_start,
     end_char |-> current_start + TextLen(Join(current_chunk))]

\* Mutant of ChunkLoop: the sentences left in the buffer after the last
\* sentence are not made into a chunk.
RECURSIVE ChunkLoopWithoutLast(_, _, _, _, _, _)
ChunkLoopWithoutLast(sentences, i, st, section_name, chunk_size, chunk_overlap) ==
    IF i > Len(sentences)
    THEN st.chunks
    ELSE LET sentence == sentences[i]
             sentence_tokens == CountTokens(sentence)
             emit == /\ st.current_tokens + sentence_tokens > chunk_size
                     /\ st.current_chunk # <<>>
             overlap == GetOverlap(st.current_chunk, chunk_overlap)
             st2 == IF emit
                    THEN [st EXCEPT
                             !.chunks = Append(@, MakeChunk(st.current_chunk, st.chunk_index,
                                                            st.current_tokens, section_name,
                                                            st.current_start)),
                             !.current_chunk = IF overlap.text # <<>>
                                               THEN <<overlap.text>> ELSE <<>>,
                             !.current_tokens = overlap.tokens,
                             !.chunk_index = @ + 1]
                    ELSE st
         IN  ChunkLoopWithoutLast(sentences, i + 1,
                       [st2 EXCEPT !.current_chunk = Append(@, sentence),
                                   !.current_tokens = @ + sentence_tokens],
                       section_name, chunk_size, chunk_overlap)

\* The loop of _chunk_text from sentence i, then the last chunk.
\* st = [chunks, current_chunk, current_tokens, current_start, chunk_index]
RECURSIVE ChunkLoop(_, _, _, _, _, _)
ChunkLoop(sentences, i, st, section_name, chunk_size, chunk_overlap) ==
    IF i > Len(sentences)
    THEN IF st.current_chunk # <<>>
         THEN Append(st.chunks,
                     MakeChunk(st.current_chunk, st.chunk_index, st.current_tokens,
                               section_name, st.current_start))
         ELSE st.chunks
    ELSE LET sentence == sentences[i]
             sentence_tokens == CountTokens(sentence)
             emit == /\ st.current_tokens + sentence_tokens > chunk_size
                     /\ st.current_chunk # <<>>
             overlap == GetOverlap(st.current_chunk, chunk_overlap)
             chunk_len == TextLen(Join(st.current_chunk))
             st2 == IF emit
                    THEN [chunks |-> Append(st.chunks,
                                        MakeChunk(st.current_chunk, st.chunk_index,
                                                  st.current_tokens, section_name,
                                                  st.current_start)),
                          current_chunk |-> IF overlap.text # <<>>
                                            THEN <<overlap.text>> ELSE <<>>,
                          current_tokens |-> overlap.tokens,
                          current_start |-> st.current_start + chunk_len
                                                - TextLen(overlap.text),
                          chunk_index |-> st.chunk_index + 1]
                    ELSE st
         IN  ChunkLoop(sentences, i + 1,
                       [st2 EXCEPT !.current_chunk = Append(@, sentence),
                                   !.current_tokens = @ + sentence_tokens],
                       section_name, chunk_size, chunk_overlap)

\* _chunk_text(text, section_name, start_offset)
ChunkText(text, section_name, start_offset, chunk_size, chunk_overlap) ==
    ChunkLoop(SplitSentences(text), 1,
              [chunks |-> <<>>, current_chunk |-> <<>>, current_tokens |-> 0,
               current_start |-> start_offset, chunk_index |-> 0],
              section_name, chunk_size, chunk_overlap)

\* Mutant of SectionLoop: the chunks keep the chunk_index _chunk_text gave
\* them within their section.
RECURSIVE SectionLoopKeepingIndex(_, _, _, _, _, _)
SectionLoopKeepingIndex(sections, k, start_pos, chunks, chunk_size, chunk_overlap) ==
    IF k > Len(sections) THEN chunks
    ELSE SectionLoopKeepingIndex(
             sections, k + 1, start_pos + TextLen(sections[k].content) + 1,
             chunks \o ChunkText(sections[k].content, sections[k].name, start_pos,
                                 chunk_size, chunk_overlap),
             chunk_size, chunk_overlap)

\* The loop of _chunk_with_sections from section k: the section's chunks
\* are renumbered from the count of the chunks so far.  start_pos is the
\* section's offset in the document.
RECURSIVE SectionLoop(_, _, _, _, _, _)
SectionLoop(sections, k, start_pos, chunks, chunk_size, chunk_overlap) ==
    IF k > Len(sections) THEN chunks
    ELSE LET section_chunks ==
                 ChunkText(sections[k].content, sections[k].name, start_pos,
                           chunk_size, chunk_overlap)
             renumbered ==
                 [j \in 1..Len(section_chunks) |->
                     [section_chunks[j] EXCEPT !.chunk_index = Len(chunks) + j - 1]]
         IN  SectionLoop(sections, k + 1,
                         start_pos + TextLen(sections[k].content) + 1,
                         chunks \o renumbered, chunk_size, chunk_overlap)

\* _chunk_with_sections(text, sections)
ChunkWithSections(sections, chunk_size, chunk_overlap) ==
    SectionLoop(sections, 1, 0, <<>>, chunk_size, chunk_overlap)

\* The text of a document: its sections one after the other.
RECURSIVE DocText(_)
DocText(sections) ==
    IF sections = <<>> THEN <<>> ELSE Head(sections).content \o DocText(Tail(sections))

\* chunk(text, metadata): by sections when the metadata has any, else
\* _chunk_simple(text).
ChunkDocument(sections, sectioned, chunk_size, chunk_overlap) ==
    IF sectioned /\ sections # <<>>
    THEN ChunkWithSections(sections, chunk_size, chunk_overlap)
    ELSE ChunkText(DocText(sections), None, 0, chunk_size, chunk_overlap)

PieceCount(sections) == Len(DocText(sections))

ChunkIdle ==
    /\ chSize = 4
    /\ chOverlap = 1
    /\ chPc = "building"
    /\ chDoc = <<>>
    /\ chSectioned = FALSE
    /\ chChunks = <<>>

\* SemanticChunker(chunk_size, chunk_overlap)
ChunkInit ==
    /\ chSize \in ChunkSizes
    /\ chOverlap \in ChunkOverlaps
    /\ chPc = "building"
    /\ chDoc = <<>>
    /\ chSectioned = FALSE
    /\ chChunks = <<>>

\* The document gets another section.
AddSection ==
    /\ chPc = "building"
    /\ Len(chDoc) < Len(SectionNames)
    /\ chDoc' = Append(chDoc, [name |-> SectionNames[Len(chDoc) + 1], content |-> <<>>])
    /\ UNCHANGED <<chSize, chOverlap, chPc, chSectioned, chChunks>>
    /\ UNCHANGED notChunkVars

\* The last section gets another piece of text.
AddPiece ==
    /\ chPc = "building"
    /\ chDoc # <<>>
    /\ PieceCount(chDoc) < MaxPieces
    /\ \E tokens \in 0..MaxSentTokens :
         chDoc' = [chDoc EXCEPT ![Len(chDoc)].content =
                      Append(@, [id |-> PieceCount(chDoc) + 1, tokens |-> tokens])]
    /\ UNCHANGED <<chSize, chOverlap, chPc, chSectioned, chChunks>>
    /\ UNCHANGED notChunkVars

\* chunk(text, metadata) runs on the document, with or without the
\* sections in the metadata.
ChunkCall ==
    /\ chPc = "building"
    /\ \E sectioned \in BOOLEAN :
         /\ chSectioned' = sectioned
         /\ chChunks' = ChunkDocument(chDoc, sectioned, chSize, chOverlap)
    /\ chPc' = "done"
    /\ UNCHANGED <<chSize, chOverlap, chDoc>>
    /\ UNCHANGED notChunkVars

ChunkNext ==
    \/ AddSection
    \/ AddPiece
    \/ ChunkCall

(***************************************************************************)
(* OpenAIEmbedder.embed and embed_batch, under their retry decorator       *)
(***************************************************************************)

\* Most texts in one embed_batch call.
MaxTexts == 201

MAX_BATCH_SIZE == 100

\* stop_after_attempt(3) of embed and embed_batch
EmbedStopAfterAttempt == 3

NoBatch == [first |-> 0, last |-> 0]

NoEmbedResult == [status |-> "none", error |-> "none", value |-> <<>>]

\* texts[i : i + MAX_BATCH_SIZE], as the first and last text of the slice
SubBatch(i, n) == [first |-> i + 1, last |-> Min(i + MAX_BATCH_SIZE, n)]

\* The orders in which the upstream may list the embeddings of a request.
ResponseOrders == {"by index", "reversed"}

\* response.data for a request of the texts batch.first..batch.last: one
\* item per text, with the index of the text in the request.
ResponseData(batch, order) ==
    LET m == batch.last - batch.first + 1
        item(j) == [index |-> j - 1, embedding |-> batch.first + j - 1]
    IN  [p \in 1..m |-> IF order = "by index" THEN item(p) ELSE item(m + 1 - p)]

\* Mutant of SortedByIndex: response.data is used in the order received.
Unsorted(data) == data

\* The items of data whose index is from..to, ascending by index, those
\* of one index in the order they have in data.
RECURSIVE ItemsByIndex(_, _, _)
ItemsByIndex(data, from, to) ==
    IF from > to THEN <<>>
    ELSE SelectSeq(data, LAMBDA d : d.index = from) \o ItemsByIndex(data, from + 1, to)

\* sorted(response.data, key=lambda x: x.index)
SortedByIndex(data) ==
    LET indexes == {data[p].index : p \in 1..Len(data)}
    IN  IF data = <<>> THEN <<>>
        ELSE ItemsByIndex(data,
                          CHOOSE a \in indexes : \A b \in indexes : a <= b,
                          CHOOSE a \in indexes : \A b \in indexes : a >= b)

\* [list(d.embedding) for d in sorted_data]
BatchEmbeddings(data) ==
    LET sorted_data == SortedByIndex(data)
    IN  [p \in 1..Len(sorted_data) |-> sorted_data[p].embedding]

EmbedIdle ==
    /\ embPc = "idle"
    /\ embOp = "none"
    /\ embTexts = 0
    /\ embAttempt = 0
    /\ embI = 0
    /\ embBatch = NoBatch
    /\ embAll = <<>>
    /\ embUpstream = 0
    /\ embFailures = 0
    /\ embResult = NoEmbedResult

EmbedInit == EmbedIdle

\* await embedder.embed(text): the first attempt starts.
EmbedCall ==
    /\ embPc = "idle"
    /\ embOp' = "embed"
    /\ embTexts' = 1
    /\ embAttempt' = 1
    /\ embPc' = "loop"
    /\ UNCHANGED <<embI, embBatch, embAll, embUpstream, embFailures, embResult>>
    /\ UNCHANGED notEmbedVars

\* await embedder.embed_batch(texts): the first attempt starts; with no
\* texts it returns [] at once.
EmbedBatchCall ==
    /\ embPc = "idle"
    /\ \E n \in 0..MaxTexts :
         /\ embTexts' = n
         /\ IF n = 0
            THEN /\ embPc' = "returned"
                 /\ embResult' = [status |-> "returned", error |-> "none", value |-> <<>>]
            ELSE /\ embPc' = "loop"
                 /\ UNCHANGED embResult
    /\ embOp' = "embed_batch"
    /\ embAttempt' = 1
    /\ UNCHANGED <<embI, embBatch, embAll, embUpstream, embFailures>>
    /\ UNCHANGED notEmbedVars

\* client.embeddings.create is called: with the text (embed), or with the
\* next sub-batch of the loop (embed_batch).
RequestStarts ==
    /\ embPc = "loop"
    /\ embI < embTexts
    /\ embBatch' = SubBatch(embI, embTexts)
    /\ embUpstream' = embUpstream + 1
    /\ embPc' = "requesting"
    /\ UNCHANGED <<embOp, embTexts, embAttempt, embI, embAll, embFailures, embResult>>
    /\ UNCHANGED notEmbedVars

\* The request returns.  embed returns response.data[0].embedding;
\* embed_batch extends all_embeddings and sleeps if texts are left.
RequestReturns ==
    /\ embPc = "requesting"
    /\ \E order \in ResponseOrders :
         LET data == ResponseData(embBatch, order)
         IN  IF embOp = "embed"
             THEN /\ embPc' = "returned"
                  /\ embResult' = [status |-> "returned", error |-> "none",
                                   value |-> <<data[1].embedding>>]
                  /\ UNCHANGED <<embAll, embI>>
             ELSE /\ embAll' = embAll \o BatchEmbeddings(data)
                  /\ embI' = embI + MAX_BATCH_SIZE
                  /\ embPc' = IF embI + MAX_BATCH_SIZE < embTexts
                              THEN "pausing" ELSE "loop"
                  /\ UNCHANGED embResult
    /\ embBatch' = NoBatch
    /\ UNCHANGED <<embOp, embTexts, embAttempt, embUpstream, embFailures>>
    /\ UNCHANGED notEmbedVars

\* await asyncio.sleep(0.1) between sub-batches is over.
PauseEnds ==
    /\ embPc = "pausing"
    /\ embPc' = "loop"
    /\ UNCHANGED <<embOp, embTexts, embAttempt, embI, embBatch, embAll, embUpstream,
                   embFailures, embResult>>
    /\ UNCHANGED notEmbedVars

\* The loop of embed_batch is over: return all_embeddings.
BatchReturns ==
    /\ embPc = "loop"
    /\ embI >= embTexts
    /\ embPc' = "returned"
    /\ embResult' = [status |-> "returned", error |-> "none", value |-> embAll]
    /\ UNCHANGED <<embOp, embTexts, embAttempt, embI, embBatch, embAll, embUpstream,
                   embFailures>>
    /\ UNCHANGED notEmbedVars

\* The request raises: `except Exception` raises EmbeddingError from it,
\* which leaves the function into the retry decorator.  Before the last
\* attempt the decorator waits and calls the function again; after it, it
\* raises RetryError.
RequestRaises ==
    /\ embPc = "requesting"
    /\ embFailures' = embFailures + 1
    /\ embBatch' = NoBatch
    /\ IF embAttempt < EmbedStopAfterAttempt
       THEN /\ embPc' = "waiting"
            /\ UNCHANGED embResult
       ELSE /\ embPc' = "raised"
            /\ embResult' = [status |-> "raised", error |-> "RetryError", value |-> <<>>]
    /\ UNCHANGED <<embOp, embTexts, embAttempt, embI, embAll, embUpstream>>
    /\ UNCHANGED notEmbedVars

\* The wait of the decorator is over: the function runs again, from its
\* first line.
RetryStarts ==
    /\ embPc = "waiting"
    /\ embAttempt' = embAttempt + 1
    /\ embI' = 0
    /\ embAll' = <<>>
    /\ embPc' = "loop"
    /\ UNCHANGED <<embOp, embTexts, embBatch, embUpstream, embFailures, embResult>>
    /\ UNCHANGED notEmbedVars

EmbedNext ==
    \/ EmbedCall
    \/ EmbedBatchCall
    \/ RequestStarts
    \/ RequestReturns
    \/ PauseEnds
    \/ BatchReturns
    \/ RequestRaises
    \/ RetryStarts

(***************************************************************************)
(* Connector search under its retry decorator                              *)
(***************************************************************************)

\* stop_after_attempt(3) of the connectors' search
SearchStopAfterAttempt == 3

Connectors == {"pubmed", "semantic_scholar"}

\* What the upstream can answer: lists of paper ids.
PaperLists == {<<>>, <<"p1">>, <<"p1", "p2">>}

\* The ways a request of a connector fails: an HTTP status error of
\* status 429, one of another status, or another exception (network).
RequestFailures == {"status 429", "status 500", "exception"}

NoConnResult == [status |-> "none", error |-> "none", cause |-> "none", value |-> <<>>]

\* The except clauses of PubMedConnector.search: the error raised for a
\* failure of _search_pmids or _fetch_details.
PubMedError(failure) ==
    IF failure = "status 429" THEN "RateLimitError" ELSE "ConnectorError"

\* SemanticScholarConnector.search: the error raised for a response
\* status or an exception of client.get.
SemanticScholarError(failure) ==
    IF failure = "status 429" THEN "RateLimitError" ELSE "ConnectorError"

\* Mutant of AfterFailedAttempt: when the attempts are used up the call
\* returns an empty list.
AfterFailedAttemptSwallowing(attempts, error) ==
    IF attempts < SearchStopAfterAttempt
    THEN [pc |-> "waiting", result |-> NoConnResult]
    ELSE [pc |-> "returned",
          result |-> [status |-> "returned", error |-> "none", cause |-> "none",
                      value |-> <<>>]]

\* The retry decorator after an attempt raised error: it waits for the
\* next attempt, or after the last attempt raises RetryError from it.
AfterFailedAttempt(attempts, error) ==
    IF attempts < SearchStopAfterAttempt
    THEN [pc |-> "waiting", result |-> NoConnResult]
    ELSE [pc |-> "raised",
          result |-> [status |-> "raised", error |-> "RetryError", cause |-> error,
                      value |-> <<>>]]

ConnIdle ==
    /\ conPc = "idle"
    /\ conSource = "none"
    /\ conAttempts = 0
    /\ conPmids = <<>>
    /\ conFailures = <<>>
    /\ conUpstream = <<>>
    /\ conResult = NoConnResult

ConnInit == ConnIdle

\* await connector.search(query): the first attempt sends its request.
ConnSearchCall ==
    /\ conPc = "idle"
    /\ \E source \in Connectors : conSource' = source
    /\ conAttempts' = 1
    /\ conPc' = "searching"
    /\ UNCHANGED <<conPmids, conFailures, conUpstream, conResult>>
    /\ UNCHANGED notConnVars

\* PubMed: _search_pmids returns; without pmids search returns [], else
\* it goes on to _fetch_details.
PmidsReturn ==
    /\ conPc = "searching"
    /\ conSource = "pubmed"
    /\ \E pmids \in PaperLists :
         /\ conPmids' = pmids
         /\ IF pmids = <<>>
            THEN /\ conPc' = "returned"
                 /\ conUpstream' = <<>>
                 /\ conResult' = [status |-> "returned", error |-> "none",
                                  cause |-> "none", value |-> <<>>]
            ELSE /\ conPc' = "fetching"
                 /\ UNCHANGED <<conUpstream, conResult>>
    /\ UNCHANGED <<conSource, conAttempts, conFailures>>
    /\ UNCHANGED notConnVars

\* PubMed: _fetch_details returns the results of the pmids found.
DetailsReturn ==
    /\ conPc = "fetching"
    /\ \E results \in PaperLists :
         /\ Len(results) <= Len(conPmids)
         /\ conUpstream' = results
         /\ conResult' = [status |-> "returned", error |-> "none", cause |-> "none",
                          value |-> results]
    /\ conPc' = "returned"
    /\ UNCHANGED <<conSource, conAttempts, conPmids, conFailures>>
    /\ UNCHANGED notConnVars

\* PubMed: _search_pmids or _fetch_details raises; search raises
\* RateLimitError or ConnectorError from it, into the retry decorator.
PubMedRequestRaises ==
    /\ conPc \in {"searching", "fetching"}
    /\ conSource = "pubmed"
    /\ \E failure \in RequestFailures :
         LET error == PubMedError(failure)
             after == AfterFailedAttempt(conAttempts, error)
         IN  /\ conFailures' = Append(conFailures, error)
             /\ conPc' = after.pc
             /\ conResult' = after.result
    /\ conPmids' = <<>>
    /\ UNCHANGED <<conSource, conAttempts, conUpstream>>
    /\ UNCHANGED notConnVars

\* Semantic Scholar: client.get returns a response of status 200, whose
\* papers search parses and returns.
SemanticScholarReturns ==
    /\ conPc = "searching"
    /\ conSource = "semantic_scholar"
    /\ \E results \in PaperLists :
         /\ conUpstream' = results
         /\ conResult' = [status |-> "returned", error |-> "none", cause |-> "none",
                          value |-> results]
    /\ conPc' = "returned"
    /\ UNCHANGED <<conSource, conAttempts, conPmids, conFailures>>
    /\ UNCHANGED notConnVars

\* Semantic Scholar: the response has status 429 or an error status, or
\* client.get raises; search raises RateLimitError or ConnectorError, into
\* the retry decorator.
SemanticScholarRequestFails ==
    /\ conPc = "searching"
    /\ conSource = "semantic_scholar"
    /\ \E failure \in RequestFailures :
         LET error == SemanticScholarError(failure)
             after == AfterFailedAttempt(conAttempts, error)
         IN  /\ conFailures' = Append(conFailures, error)
             /\ conPc' = after.pc
             /\ conResult' = after.result
    /\ UNCHANGED <<conSource, conAttempts, conPmids, conUpstream>>
    /\ UNCHANGED notConnVars

\* The wait of the decorator is over: search runs again.
ConnRetryStarts ==
    /\ conPc = "waiting"
    /\ conAttempts' = conAttempts + 1
    /\ conPc' = "searching"
    /\ UNCHANGED <<conSource, conPmids, conFailures, conUpstream, conResult>>
    /\ UNCHANGED notConnVars

ConnNext ==
    \/ ConnSearchCall
    \/ PmidsReturn
    \/ DetailsReturn
    \/ PubMedRequestRaises
    \/ SemanticScholarReturns
    \/ SemanticScholarRequestFails
    \/ ConnRetryStarts

(***************************************************************************)
(* RAGPipeline.query                                                       *)
(***************************************************************************)

\* The answers the synthesizer gives.
PipeAnswers == {"answer", "no information"}

NoPipeResult ==
    [answer |-> "none", retrieved_chunks |-> <<>>, reranked_chunks |-> <<>>,
     retrieval_count |-> 0, rerank_count |-> 0]

\* What a reranker returns for the results it is given: some of them, in
\* some order.
RerankedLists(retrieved) == {q \in RankedIds : Range(q) \subseteq Range(retrieved)}

\* Mutant of AfterRetrieval: the reranker is called whatever was
\* retrieved.
AfterRetrievalAlwaysRerank(retrieved) ==
    [pc |-> "reranking", reranked |-> NoList,
     log |-> <<[step |-> "rerank", event |-> "called"]>>]

\* `if retrieved:` the reranker is called; else reranked = [] and the
\* synthesizer is called.
AfterRetrieval(retrieved) ==
    IF retrieved # <<>>
    THEN [pc |-> "reranking", reranked |-> NoList,
          log |-> <<[step |-> "rerank", event |-> "called"]>>]
    ELSE [pc |-> "synthesizing", reranked |-> ListOf(<<>>),
          log |-> <<[step |-> "synthesize", event |-> "called"]>>]

PipeIdle ==
    /\ plPc = "idle"
    /\ plRetrieved = NoList
    /\ plReranked = NoList
    /\ plContext = NoList
    /\ plLog = <<>>
    /\ plResult = NoPipeResult

PipeInit == PipeIdle

\* query is called and awaits self.retriever.retrieve.
PipeQueryCall ==
    /\ plPc = "idle"
    /\ plPc' = "retrieving"
    /\ plLog' = <<[step |-> "retrieve", event |-> "called"]>>
    /\ UNCHANGED <<plRetrieved, plReranked, plContext, plResult>>
    /\ UNCHANGED notPipeVars

\* retrieve returns: the reranker is called with what it returned, or,
\* when that is empty, the synthesizer with an empty context.
PipeRetrieveReturns ==
    /\ plPc = "retrieving"
    /\ \E retrieved \in RankedIds :
         LET after == AfterRetrieval(retrieved)
         IN  /\ plRetrieved' = ListOf(retrieved)
             /\ plReranked' = after.reranked
             /\ plContext' = IF after.pc = "synthesizing"
                             THEN after.reranked ELSE plContext
             /\ plPc' = after.pc
             /\ plLog' = Append(plLog, [step |-> "retrieve", event |-> "returned"])
                             \o after.log
    /\ UNCHANGED plResult
    /\ UNCHANGED notPipeVars

\* rerank returns: the synthesizer is called with what it returned.
PipeRerankReturns ==
    /\ plPc = "reranking"
    /\ \E reranked \in RerankedLists(plRetrieved.items) :
         /\ plReranked' = ListOf(reranked)
         /\ plContext' = ListOf(reranked)
    /\ plPc' = "synthesizing"
    /\ plLog' = plLog \o <<[step |-> "rerank", event |-> "returned"],
                           [step |-> "synthesize", event |-> "called"]>>
    /\ UNCHANGED <<plRetrieved, plResult>>
    /\ UNCHANGED notPipeVars

\* synthesize returns: query returns the RAGPipelineResult.
PipeSynthesizeReturns ==
    /\ plPc = "synthesizing"
    /\ \E answer \in PipeAnswers :
         plResult' = [answer |-> answer,
                      retrieved_chunks |-> plRetrieved.items,
                      reranked_chunks |-> plReranked.items,
                      retrieval_count |-> Len(plRetrieved.items),
                      rerank_count |-> Len(plReranked.items)]
    /\ plPc' = "returned"
    /\ plLog' = Append(plLog, [step |-> "synthesize", event |-> "returned"])
    /\ UNCHANGED <<plRetrieved, plReranked, plContext>>
    /\ UNCHANGED notPipeVars

\* The call query awaits raises: the exception leaves query.
PipeStepRaises ==
    /\ plPc \in {"retrieving", "reranking", "synthesizing"}
    /\ plLog' = Append(plLog, [step |-> plLog[Len(plLog)].step, event |-> "raised"])
    /\ plPc' = "raised"
    /\ UNCHANGED <<plRetrieved, plReranked, plContext, plResult>>
    /\ UNCHANGED notPipeVars

PipeNext ==
    \/ PipeQueryCall
    \/ PipeRetrieveReturns
    \/ PipeRerankReturns
    \/ PipeSynthesizeReturns
    \/ PipeStepRaises

(***************************************************************************)
(* ingest_document and _process_document_async                             *)
(***************************************************************************)

\* Most runs of the task for the document, and most chunks of one run.
MaxRuns == 3
MaxChunks == 2

\* The steps of a run that await something before the chunks are stored.
IngestSteps == {"parsing", "embedding"}

\* Document.mark_processing
MarkProcessing(doc) == [doc EXCEPT !.status = "processing"]

\* Document.mark_completed(chunk_count)
MarkCompleted(doc, chunk_count) ==
    [doc EXCEPT !.status = "completed", !.chunk_count = chunk_count,
                !.error_message = "None"]

\* Mutant of MarkFailed: the error message is recorded, the status is not.
MarkFailedMessageOnly(doc, error) == [doc EXCEPT !.error_message = error]

\* Document.mark_failed(error)
MarkFailed(doc, error) == [doc EXCEPT !.status = "failed", !.error_message = error]

\* The rows _store_chunks adds for the chunks of a run: chunk_index is the
\* chunk's, 0 .. len(chunks) - 1.
StoreChunks(chunk_count, run) ==
    [j \in 1..chunk_count |-> [chunk_index |-> j - 1, run |-> run]]

IngestIdle ==
    /\ ingPc = "idle"
    /\ ingRuns = 0
    /\ ingDoc = [status |-> "pending", error_message |-> "None", chunk_count |-> 0]
    /\ ingStored = <<>>
    /\ ingChunks = 0
    /\ ingPending = <<>>
    /\ ingOutcome = "none"

\* The document as the upload created it.
IngestInit == IngestIdle

\* A run starts: the document is read, marked processing and committed;
\* the run awaits pipeline.process.
IngestStarts ==
    /\ ingPc = "idle"
    /\ ingRuns < MaxRuns
    /\ ingRuns' = ingRuns + 1
    /\ ingDoc' = MarkProcessing(ingDoc)
    /\ ingPc' = "parsing"
    /\ ingOutcome' = "none"
    /\ UNCHANGED <<ingStored, ingChunks, ingPending>>
    /\ UNCHANGED notIngestVars

\* pipeline.process returns; the chunker chunks the text and the run
\* awaits embed_batch.
ParseReturns ==
    /\ ingPc = "parsing"
    /\ \E n \in 0..MaxChunks : ingChunks' = n
    /\ ingPc' = "embedding"
    /\ UNCHANGED <<ingRuns, ingDoc, ingStored, ingPending, ingOutcome>>
    /\ UNCHANGED notIngestVars

\* embed_batch returns one embedding per chunk; _store_chunks adds a row
\* per chunk to the session and awaits its flush.
EmbedBatchReturns ==
    /\ ingPc = "embedding"
    /\ ingPending' = StoreChunks(ingChunks, ingRuns)
    /\ ingPc' = "storing"
    /\ UNCHANGED <<ingRuns, ingDoc, ingStored, ingChunks, ingOutcome>>
    /\ UNCHANGED notIngestVars

\* The flush returns: the document is marked completed and the session
\* committed, which adds the rows of the run to those stored; the run
\* returns.
StoreReturns ==
    /\ ingPc = "storing"
    /\ ingDoc' = MarkCompleted(ingDoc, ingChunks)
    /\ ingStored' = ingStored \o ingPending
    /\ ingPending' = <<>>
    /\ ingPc' = "idle"
    /\ ingOutcome' = "returned"
    /\ UNCHANGED <<ingRuns, ingChunks>>
    /\ UNCHANGED notIngestVars

\* A step before storing raises (a constructor, pipeline.process, chunk
\* or embed_batch): the except clause marks the document failed, commits
\* and raises again; ingest_document marks it failed once more and asks
\* for a retry.
IngestStepRaises ==
    /\ ingPc \in IngestSteps
    /\ ingDoc' = MarkFailed(MarkFailed(ingDoc, ingPc), ingPc)
    /\ ingPc' = "idle"
    /\ ingOutcome' = "raised"
    /\ ingChunks' = 0
    /\ UNCHANGED <<ingRuns, ingStored, ingPending>>
    /\ UNCHANGED notIngestVars

\* The flush raises: the transaction of the session is rolled back and
\* its rows are not stored.  The commit of the except clause either
\* records the failure or raises in its turn; ingest_document then marks
\* the document failed in a session of its own.
StoreRaises ==
    /\ ingPc = "storing"
    /\ \E commits \in BOOLEAN :
         ingDoc' = IF commits
                   THEN MarkFailed(MarkFailed(ingDoc, "storing"), "storing")
                   ELSE MarkFailed(ingDoc, "rolled back")
    /\ ingPending' = <<>>
    /\ ingPc' = "idle"
    /\ ingOutcome' = "raised"
    /\ ingChunks' = 0
    /\ UNCHANGED <<ingRuns, ingStored>>
    /\ UNCHANGED notIngestVars

IngestNext ==
    \/ IngestStarts
    \/ ParseReturns
    \/ EmbedBatchReturns
    \/ StoreReturns
    \/ IngestStepRaises
    \/ StoreRaises

(***************************************************************************)
(* LiteratureQAChain                                                       *)
(***************************************************************************)

\* Most internal and external results of a search.
MaxInternal == 4
MaxExternal == 1

\* `pattern in text`
Contains(text, pattern) ==
    \E i \in 1..(Len(text) - Len(pattern) + 1) :
        SubSeq(text, i, i + Len(pattern) - 1) = pattern

ComparativeWords ==
    {<<"c", "o", "m", "p", "a", "r", "e">>,
     <<"d", "i", "f", "f", "e", "r", "e", "n", "c", "e">>,
     <<"v", "e", "r", "s", "u", "s">>,
     <<"v", "s">>}

FactualPhrases ==
    {<<"w", "h", "a", "t", " ", "i", "s">>,
     <<"d", "e", "f", "i", "n", "e">>,
     <<"h", "o", "w", " ", "d", "o", "e", "s">>}

\* The query type _classify_query gives a query.
ClassifyQuery(query) ==
    LET lowered == StrLower(query)
    IN  IF \E word \in ComparativeWords : Contains(lowered, word) THEN "comparative"
        ELSE IF \E word \in FactualPhrases : Contains(lowered, word) THEN "factual"
        ELSE "exploratory"

\* The queries asked: "A vs B", "What is X", "define vs", "canvas" and
\* "gene".
QaQueries ==
    {<<"A", " ", "v", "s", " ", "B">>,
     <<"W", "h", "a", "t", " ", "i", "s", " ", "X">>,
     <<"d", "e", "f", "i", "n", "e", " ", "v", "s">>,
     <<"c", "a", "n", "v", "a", "s">>,
     <<"g", "e", "n", "e">>}

\* Mutant of ShouldSearchExternal: the query type is not looked at.
ShouldSearchExternalByCount(include_external, internal_count, query_type) ==
    IF ~include_external THEN "synthesize"
    ELSE IF internal_count < 3 THEN "search_external"
    ELSE "synthesize"

\* _should_search_external(state)
ShouldSearchExternal(include_external, internal_count, query_type) ==
    IF ~include_external THEN "synthesize"
    ELSE IF internal_count < 3 THEN "search_external"
    ELSE IF query_type = "exploratory" THEN "search_external"
    ELSE "synthesize"

QaIdle ==
    /\ qaIncludeExternal = TRUE
    /\ qaPc = "idle"
    /\ qaQuery = <<>>
    /\ qaQueryType = ""
    /\ qaInternal = 0
    /\ qaExternal = 0
    /\ qaLog = <<>>

\* LiteratureQAChain(include_external=...)
QaInit ==
    /\ qaIncludeExternal \in BOOLEAN
    /\ qaPc = "idle"
    /\ qaQuery = <<>>
    /\ qaQueryType = ""
    /\ qaInternal = 0
    /\ qaExternal = 0
    /\ qaLog = <<>>

\* run(query): the graph is invoked and enters classify_query.
QaRun ==
    /\ qaPc = "idle"
    /\ \E query \in QaQueries : qaQuery' = query
    /\ qaPc' = "classify_query"
    /\ qaLog' = <<"classify_query">>
    /\ UNCHANGED <<qaIncludeExternal, qaQueryType, qaInternal, qaExternal>>
    /\ UNCHANGED notQaVars

\* classify_query returns the query type; search_internal is entered.
ClassifyReturns ==
    /\ qaPc = "classify_query"
    /\ qaQueryType' = ClassifyQuery(qaQuery)
    /\ qaPc' = "search_internal"
    /\ qaLog' = Append(qaLog, "search_internal")
    /\ UNCHANGED <<qaIncludeExternal, qaQuery, qaInternal, qaExternal>>
    /\ UNCHANGED notQaVars

\* search_internal returns the reranked chunks of rag_pipeline.query; the
\* conditional edge chooses the next node.
SearchInternalReturns ==
    /\ qaPc = "search_internal"
    /\ \E n \in 0..MaxInternal :
         LET next == ShouldSearchExternal(qaIncludeExternal, n, qaQueryType)
         IN  /\ qaInternal' = n
             /\ qaPc' = next
             /\ qaLog' = Append(qaLog, next)
    /\ UNCHANGED <<qaIncludeExternal, qaQuery, qaQueryType, qaExternal>>
    /\ UNCHANGED notQaVars

\* search_external returns the results of the aggregator; synthesize is
\* entered.
SearchExternalReturns ==
    /\ qaPc = "search_external"
    /\ \E m \in 0..MaxExternal : qaExternal' = m
    /\ qaPc' = "synthesize"
    /\ qaLog' = Append(qaLog, "synthesize")
    /\ UNCHANGED <<qaIncludeExternal, qaQuery, qaQueryType, qaInternal>>
    /\ UNCHANGED notQaVars

\* synthesize returns; the graph ends and run returns its result.
SynthesizeReturns ==
    /\ qaPc = "synthesize"
    /\ qaPc' = "end"
    /\ UNCHANGED <<qaIncludeExternal, qaQuery, qaQueryType, qaInternal, qaExternal, qaLog>>
    /\ UNCHANGED notQaVars

\* A node that awaits the pipeline or the aggregator raises: the
\* exception leaves the graph and run.
QaNodeRaises ==
    /\ qaPc \in {"search_internal", "search_external", "synthesize"}
    /\ qaPc' = "raised"
    /\ UNCHANGED <<qaIncludeExternal, qaQuery, qaQueryType, qaInternal, qaExternal, qaLog>>
    /\ UNCHANGED notQaVars

QaNext ==
    \/ QaRun
    \/ ClassifyReturns
    \/ SearchInternalReturns
    \/ SearchExternalReturns
    \/ SynthesizeReturns
    \/ QaNodeRaises

InitSynth == SynthInit /\ DedupIdle /\ AggIdle /\ RrfIdle /\ HybIdle /\ SemIdle /\ KwIdle /\ RerankIdle /\ ChunkIdle /\ EmbedIdle /\ ConnIdle /\ PipeIdle /\ IngestIdle /\ QaIdle
InitDedup == DedupInit /\ SynthIdle /\ AggIdle /\ RrfIdle /\ HybIdle /\ SemIdle /\ KwIdle /\ RerankIdle /\ ChunkIdle /\ EmbedIdle /\ ConnIdle /\ PipeIdle /\ IngestIdle /\ QaIdle
InitAgg == AggInit /\ SynthIdle /\ DedupIdle /\ RrfIdle /\ HybIdle /\ SemIdle /\ KwIdle /\ RerankIdle /\ ChunkIdle /\ EmbedIdle /\ ConnIdle /\ PipeIdle /\ IngestIdle /\ QaIdle
InitRrf == RrfInit /\ SynthIdle /\ DedupIdle /\ AggIdle /\ HybIdle /\ SemIdle /\ KwIdle /\ RerankIdle /\ ChunkIdle /\ EmbedIdle /\ ConnIdle /\ PipeIdle /\ IngestIdle /\ QaIdle
InitHyb == HybInit /\ SynthIdle /\ DedupIdle /\ AggIdle /\ RrfIdle /\ SemIdle /\ KwIdle /\ RerankIdle /\ ChunkIdle /\ EmbedIdle /\ ConnIdle /\ PipeIdle /\ IngestIdle /\ QaIdle
InitSem == SemInit /\ SynthIdle /\ DedupIdle /\ AggIdle /\ RrfIdle /\ HybIdle /\ KwIdle /\ RerankIdle /\ ChunkIdle /\ EmbedIdle /\ ConnIdle /\ PipeIdle /\ IngestIdle /\ QaIdle
InitKw == KwInit /\ SynthIdle /\ DedupIdle /\ AggIdle /\ RrfIdle /\ HybIdle /\ SemIdle /\ RerankIdle /\ ChunkIdle /\ EmbedIdle /\ ConnIdle /\ PipeIdle /\ IngestIdle /\ QaIdle
InitRerank == RerankInit /\ SynthIdle /\ DedupIdle /\ AggIdle /\ RrfIdle /\ HybIdle /\ SemIdle /\ KwIdle /\ ChunkIdle /\ EmbedIdle /\ ConnIdle /\ PipeIdle /\ IngestIdle /\ QaIdle
InitChunk == ChunkInit /\ SynthIdle /\ DedupIdle /\ AggIdle /\ RrfIdle /\ HybIdle /\ SemIdle /\ KwIdle /\ RerankIdle /\ EmbedIdle /\ ConnIdle /\ PipeIdle /\ IngestIdle /\ QaIdle
InitEmbed == EmbedInit /\ SynthIdle /\ DedupIdle /\ AggIdle /\ RrfIdle /\ HybIdle /\ SemIdle /\ KwIdle /\ RerankIdle /\ ChunkIdle /\ ConnIdle /\ PipeIdle /\ IngestIdle /\ QaIdle
InitConn == ConnInit /\ SynthIdle /\ DedupIdle /\ AggIdle /\ RrfIdle /\ HybIdle /\ SemIdle /\ KwIdle /\ RerankIdle /\ ChunkIdle /\ EmbedIdle /\ PipeIdle /\ IngestIdle /\ QaIdle
InitPipe == PipeInit /\ SynthIdle /\ DedupIdle /\ AggIdle /\ RrfIdle /\ HybIdle /\ SemIdle /\ KwIdle /\ RerankIdle /\ ChunkIdle /\ EmbedIdle /\ ConnIdle /\ IngestIdle /\ QaIdle
InitIngest == IngestInit /\ SynthIdle /\ DedupIdle /\ AggIdle /\ RrfIdle /\ HybIdle /\ SemIdle /\ KwIdle /\ RerankIdle /\ ChunkIdle /\ EmbedIdle /\ ConnIdle /\ PipeIdle /\ QaIdle
InitQa == QaInit /\ SynthIdle /\ DedupIdle /\ AggIdle /\ RrfIdle /\ HybIdle /\ SemIdle /\ KwIdle /\ RerankIdle /\ ChunkIdle /\ EmbedIdle /\ ConnIdle /\ PipeIdle /\ IngestIdle

SpecSynth == InitSynth /\ [][SynthNext]_vars

SpecDedup == InitDedup /\ [][DedupNext]_vars

SpecAgg == InitAgg /\ [][AggNext]_vars

SpecRrf == InitRrf /\ [][RrfNext]_vars

SpecHyb == InitHyb /\ [][HybNext]_vars

SpecSem == InitSem /\ [][SemNext]_vars

SpecKw == InitKw /\ [][KwNext]_vars

SpecRerank == InitRerank /\ [][RerankNext]_vars

SpecChunk == InitChunk /\ [][ChunkNext]_vars

SpecEmbed == InitEmbed /\ [][EmbedNext]_vars

SpecConn == InitConn /\ [][ConnNext]_vars

SpecPipe == InitPipe /\ [][PipeNext]_vars

SpecIngest == InitIngest /\ [][IngestNext]_vars

SpecQa == InitQa /\ [][QaNext]_vars

(***************************************************************************)
(* Properties of deduplication and merging                                 *)
(***************************************************************************)

\* a and b agree on their first n characters (and are both shorter than n
\* only when equal).
AgreeOnPrefix(a, b, n) ==
    /\ Min(Len(a), n) = Min(Len(b), n)
    /\ \A k \in 1..Min(Len(a), n) : a[k] = b[k]

\* Two DOI-less records have the same normalized title prefix.
SameTitleKey(r1, r2) ==
    AgreeOnPrefix(Strip(StrLower(r1.title)), Strip(StrLower(r2.title)), 100)

\* Two DOI-bearing records share a DOI, case-insensitively.
SameDoi(r1, r2) == StrLower(r1.doi.text) = StrLower(r2.doi.text)

\* The indices of the input records that share the DOI of input record i.
DoiGroupOf(i) ==
    {g \in 1..Len(dedupIn) : HasDoi(dedupIn[g]) /\ SameDoi(dedupIn[g], dedupIn[i])}

\* The indices of the output records that carry the DOI of input record i.
OutOfDoi(i) ==
    {p \in 1..Len(dedupOut) : HasDoi(dedupOut[p]) /\ SameDoi(dedupOut[p], dedupIn[i])}

\* The k-th smallest element of a set of integers.
NthOf(S, k) == CHOOSE x \in S : Cardinality({y \in S : y <= x}) = k

AbstractLen(o) == IF o.isNone THEN 0 ELSE Len(o.text)

\* C3: the output of deduplication holds no two records whose DOIs are
\* equal after lower-casing, and no two DOI-less records whose lower-cased,
\* trimmed titles agree on their first 100 characters.
C3_OutputKeysDistinct ==
    dedupPc = "done" =>
        \A p, q \in 1..Len(dedupOut) :
            p < q =>
                /\ (HasDoi(dedupOut[p]) /\ HasDoi(dedupOut[q]))
                      => ~SameDoi(dedupOut[p], dedupOut[q])
                /\ (~HasDoi(dedupOut[p]) /\ ~HasDoi(dedupOut[q]))
                      => ~SameTitleKey(dedupOut[p], dedupOut[q])

\* C3 witness: the input held the DOI in two spellings ("X", "x") and a
\* DOI-less record; two records came out.
C3_Witness ==
    /\ dedupPc = "done"
    /\ Len(dedupIn) = 3
    /\ dedupIn[1].doi = Str(<<"X">>)
    /\ dedupIn[2].doi = Str(<<"x">>)
    /\ ~HasDoi(dedupIn[3])
    /\ Len(dedupOut) = 2

\* C4: when several input records share a DOI (case-insensitively), exactly
\* one output record carries that DOI; its abstract is one of theirs and no
\* shorter than any of theirs, its author list is one of theirs and no
\* shorter than any of theirs, and its score is the maximum of theirs.
C4_MergedTakesBestFields ==
    dedupPc = "done" =>
        \A i \in 1..Len(dedupIn) :
            (HasDoi(dedupIn[i]) /\ Cardinality(DoiGroupOf(i)) >= 2) =>
                /\ Cardinality(OutOfDoi(i)) = 1
                /\ \A p \in OutOfDoi(i) :
                     LET m == dedupOut[p]
                         G == DoiGroupOf(i)
                     IN  /\ \E g \in G : m.abstract = dedupIn[g].abstract
                         /\ \A g \in G : AbstractLen(m.abstract)
                                            >= AbstractLen(dedupIn[g].abstract)
                         /\ \E g \in G : m.authors = dedupIn[g].authors
                         /\ \A g \in G : Len(m.authors) >= Len(dedupIn[g].authors)
                         /\ \E g \in G : m.score = dedupIn[g].score
                         /\ \A g \in G : m.score >= dedupIn[g].score

\* C4 witness: three records of one DOI were merged; the abstract came
\* from the second, the authors from the third, the score from the first.
C4_Witness ==
    /\ dedupPc = "done"
    /\ Len(dedupIn) = 3
    /\ Len(dedupOut) = 1
    /\ dedupOut[1].abstract = dedupIn[2].abstract
    /\ AbstractLen(dedupIn[2].abstract) > AbstractLen(dedupIn[1].abstract)
    /\ dedupOut[1].authors = dedupIn[3].authors
    /\ Len(dedupIn[3].authors) > Len(dedupIn[1].authors)
    /\ dedupOut[1].score = dedupIn[1].score
    /\ dedupIn[1].score > dedupIn[2].score

\* C5: when two or more records are merged, the merged record's metadata
\* has every key of every contributing record's metadata, and its "sources"
\* entry lists the source of each contributing record, one entry per
\* record, in input order.
C5_MergedMetadataUnionAndSources ==
    dedupPc = "done" =>
        \A i \in 1..Len(dedupIn) :
            (HasDoi(dedupIn[i]) /\ Cardinality(DoiGroupOf(i)) >= 2) =>
                \A p \in OutOfDoi(i) :
                    LET md == dedupOut[p].metadata
                        G == DoiGroupOf(i)
                    IN  /\ \A g \in G : DOMAIN dedupIn[g].metadata \subseteq DOMAIN md
                        /\ "sources" \in DOMAIN md
                        /\ Len(md["sources"]) = Cardinality(G)
                        /\ \A k \in 1..Cardinality(G) :
                              md["sources"][k] = dedupIn[NthOf(G, k)].source

\* C5 witness: two records with different metadata keys, the second
\* carrying a stale "sources" entry of its own, were merged.
C5_Witness ==
    /\ dedupPc = "done"
    /\ Len(dedupIn) = 2
    /\ DOMAIN dedupIn[1].metadata = {"citations"}
    /\ DOMAIN dedupIn[2].metadata = {"sources"}
    /\ Len(dedupOut) = 1
    /\ DOMAIN dedupOut[1].metadata = {"citations", "sources"}
    /\ dedupOut[1].metadata["sources"] = <<"pubmed", "arxiv">>

\* C6: the DOI-less records of the output are exactly the DOI-less input
\* records that no earlier DOI-less input record shares a title key with,
\* in input order and with every field as in the input.
C6_TitleDedupFirstWinsUnmerged ==
    dedupPc = "done" =>
        LET nd == {i \in 1..Len(dedupIn) : ~HasDoi(dedupIn[i])}
            firsts == {i \in nd : \A j \in nd :
                          j < i => ~SameTitleKey(dedupIn[j], dedupIn[i])}
            outNd == SelectSeq(dedupOut, LAMBDA r : ~HasDoi(r))
        IN  /\ Len(outNd) = Cardinality(firsts)
            /\ \A k \in 1..Len(outNd) : outNd[k] = dedupIn[NthOf(firsts, k)]

\* C6 witness: three DOI-less records, the second a duplicate of the
\* first under another spelling of the title, the third a different
\* title; the first and the third came out.
C6_Witness ==
    /\ dedupPc = "done"
    /\ Len(dedupIn) = 3
    /\ \A i \in 1..3 : ~HasDoi(dedupIn[i])
    /\ dedupIn[1].title = <<"T">>
    /\ dedupIn[2].title = <<" ", "t", " ">>
    /\ Len(dedupIn[3].title) > 100
    /\ dedupOut = <<dedupIn[1], dedupIn[3]>>

\* The input records that are the first of their lower-cased DOI.
FirstOfDoi ==
    {i \in 1..Len(dedupIn) :
        /\ HasDoi(dedupIn[i])
        /\ \A j \in 1..(i - 1) : HasDoi(dedupIn[j]) => ~SameDoi(dedupIn[j], dedupIn[i])}

\* The DOI-less input records that are the first of their title key among
\* the DOI-less records.
FirstOfTitle ==
    {i \in 1..Len(dedupIn) :
        /\ ~HasDoi(dedupIn[i])
        /\ \A j \in 1..(i - 1) :
               ~HasDoi(dedupIn[j]) => ~SameTitleKey(dedupIn[j], dedupIn[i])}

\* C29: deduplication returns as many records as the input has distinct
\* lower-cased DOIs plus distinct title keys among its DOI-less records;
\* a DOI-less record is neither dropped for nor merged into a DOI-bearing
\* record of the same title: the first of each title key is returned as
\* it was, and a DOI-bearing record returned is the only record of its
\* DOI or lists the sources of the records of its DOI, and no other.
C29_CountAndDoiLessKeptApart ==
    dedupPc = "done" =>
        /\ Len(dedupOut) = Cardinality(FirstOfDoi) + Cardinality(FirstOfTitle)
        /\ \A i \in FirstOfTitle : dedupIn[i] \in Range(dedupOut)
        /\ \A p \in 1..Len(dedupOut) :
               HasDoi(dedupOut[p]) =>
                   LET group == {g \in 1..Len(dedupIn) :
                                    HasDoi(dedupIn[g]) /\ SameDoi(dedupIn[g], dedupOut[p])}
                   IN  IF Cardinality(group) = 1
                       THEN \A g \in group : dedupOut[p] = dedupIn[g]
                       ELSE Range(dedupOut[p].metadata["sources"])
                                = {dedupIn[g].source : g \in group}

\* Deduplication ran on two records of one DOI and a DOI-less record, all
\* of one title, and returned two records.
C29_Witness ==
    /\ dedupPc = "done"
    /\ Len(dedupIn) = 3
    /\ HasDoi(dedupIn[1])
    /\ ~HasDoi(dedupIn[2])
    /\ HasDoi(dedupIn[3])
    /\ SameDoi(dedupIn[1], dedupIn[3])
    /\ \A i \in 1..3 : dedupIn[i].title = <<"T">>
    /\ Len(dedupOut) = 2
    /\ dedupOut[2] = dedupIn[2]

(***************************************************************************)
(* Properties of the aggregated search                                     *)
(***************************************************************************)

\* The lists returned by the connectors of the sources in S, in task order.
RECURSIVE ReturnedBy(_, _)
ReturnedBy(tasks, S) ==
    IF tasks = <<>> THEN <<>>
    ELSE (IF Head(tasks) \in S THEN aggReturned[Head(tasks)] ELSE <<>>)
         \o ReturnedBy(Tail(tasks), S)

\* C7: whatever subset of the queried sources fails (all of them included),
\* search does not raise; every source it made a task for is queried; and
\* what it returns are the deduplicated records of exactly the sources that
\* succeeded, in descending score order (nothing when all failed).
C7_SearchSurvivesSourceFailures ==
    /\ aggPc # "raised"
    /\ aggPc = "returned" =>
         LET asked == Range(aggTasks)
             ok == asked \ aggFailed
             expected == DeduplicateResults(ReturnedBy(aggTasks, ok))
         IN  /\ aggQueried = asked
             /\ Len(aggResult) = Len(expected)
             /\ Range(aggResult) = Range(expected)
             /\ \A p, q \in 1..Len(aggResult) :
                    p < q => aggResult[p].score >= aggResult[q].score
             /\ \A p \in 1..Len(aggResult) : aggResult[p].source \in ok
             /\ ok = {} => aggResult = <<>>

\* C7 witness: of three sources queried pubmed failed; the search returned
\* the three records left of what arxiv and semantic_scholar found.
C7_Witness ==
    /\ aggPc = "returned"
    /\ Len(aggTasks) = 3
    /\ aggFailed = {"pubmed"}
    /\ aggQueried = SourceSet
    /\ Len(aggResult) = 3

(***************************************************************************)
(* Properties of the fusion                                                *)
(***************************************************************************)

IdsOf(results) == [p \in 1..Len(results) |-> results[p].chunk_id]

\* The 1-indexed rank of chunk c in a list of ids (0 when it is not there).
RankIn(ids, c) ==
    IF c \in Range(ids) THEN CHOOSE r \in 1..Len(ids) : ids[r] = c ELSE 0

\* weight / (60 + rank) of chunk c from one list, nothing when not in it.
Share(ids, c, weight) ==
    IF RankIn(ids, c) = 0 THEN <<0, 1>> ELSE Rat(weight, 60 + RankIn(ids, c))

\* The accumulated score of chunk c: the sum of its shares.
Accumulated(c) ==
    RatAdd(Share(IdsOf(rrfSemantic), c, rrfWeights[1]),
           Share(IdsOf(rrfKeyword), c, rrfWeights[2]))

\* The position at which chunk c is first met: the semantic list first,
\* then the keyword list.
FirstMet(c) ==
    IF RankIn(IdsOf(rrfSemantic), c) > 0 THEN RankIn(IdsOf(rrfSemantic), c)
    ELSE Len(rrfSemantic) + RankIn(IdsOf(rrfKeyword), c)

FusedChunks == Range(IdsOf(rrfSemantic)) \cup Range(IdsOf(rrfKeyword))

\* C8: a chunk ranked first in the semantic list and first in the keyword
\* list is ranked first in the fused output.
C8_UnanimousTopStaysTop ==
    (/\ rrfPc = "done"
     /\ rrfSemantic # <<>> /\ rrfKeyword # <<>>
     /\ rrfSemantic[1].chunk_id = rrfKeyword[1].chunk_id) =>
        /\ rrfFused # <<>>
        /\ rrfFused[1].chunk_id = rrfSemantic[1].chunk_id

\* C8 witness: one chunk leads two lists of three and leads the fusion of
\* the four chunks.
C8_Witness ==
    /\ rrfPc = "done"
    /\ Len(rrfSemantic) = 3 /\ Len(rrfKeyword) = 3
    /\ rrfSemantic[1].chunk_id = rrfKeyword[1].chunk_id
    /\ rrfSemantic[2].chunk_id # rrfKeyword[2].chunk_id
    /\ Len(rrfFused) = 4
    /\ rrfFused[1].chunk_id = rrfKeyword[1].chunk_id

\* C9: the fused list holds every chunk of either list once, in descending
\* order of accumulated score (the sum over the lists holding the chunk of
\* weight / (60 + rank)); chunks of equal score keep the order in which
\* they were first met, the semantic list first.  With weights 0.7 / 0.3,
\* semantic = [A, B] and keyword = [B, C] fuse to [B, A, C].
C9_OrderedByAccumulatedScore ==
    rrfPc = "done" =>
        LET ids == IdsOf(rrfFused)
        IN  /\ Range(ids) = FusedChunks
            /\ Len(ids) = Cardinality(FusedChunks)
            /\ \A p, q \in 1..Len(ids) :
                   p < q =>
                       /\ ~RatLess(Accumulated(ids[p]), Accumulated(ids[q]))
                       /\ Accumulated(ids[p]) = Accumulated(ids[q])
                             => FirstMet(ids[p]) < FirstMet(ids[q])
            /\ (/\ rrfWeights = <<7, 3>>
                /\ IdsOf(rrfSemantic) = <<"A", "B">>
                /\ IdsOf(rrfKeyword) = <<"B", "C">>) => ids = <<"B", "A", "C">>

\* C9 witness: the example has been fused.
C9_Witness ==
    /\ rrfPc = "done"
    /\ rrfWeights = <<7, 3>>
    /\ IdsOf(rrfSemantic) = <<"A", "B">>
    /\ IdsOf(rrfKeyword) = <<"B", "C">>
    /\ IdsOf(rrfFused) = <<"B", "A", "C">>

\* C10: when at least one input list is non-empty, every fused candidate's
\* score is its accumulated score divided by the greatest accumulated
\* score, lies in (0, 1], and the first candidate's score is exactly 1.
C10_ScoresNormalizedByMaximum ==
    (rrfPc = "done" /\ (rrfSemantic # <<>> \/ rrfKeyword # <<>>)) =>
        LET top == CHOOSE c \in FusedChunks :
                       \A d \in FusedChunks : ~RatLess(Accumulated(c), Accumulated(d))
        IN  /\ rrfFused # <<>>
            /\ rrfFused[1].score = <<1, 1>>
            /\ \A p \in 1..Len(rrfFused) :
                   LET sc == rrfFused[p].score
                   IN  /\ sc[1] > 0 /\ sc[2] > 0 /\ sc[1] <= sc[2]
                       /\ sc = RatDiv(Accumulated(rrfFused[p].chunk_id),
                                      Accumulated(top))

\* C10 witness: a fusion of three chunks whose first score is 1 and whose
\* last is smaller, the semantic list being empty.
C10_Witness ==
    /\ rrfPc = "done"
    /\ rrfSemantic = <<>>
    /\ Len(rrfFused) = 3
    /\ rrfFused[1].score = <<1, 1>>
    /\ RatLess(rrfFused[3].score, <<1, 1>>)
    /\ RatLess(<<0, 1>>, rrfFused[3].score)

(***************************************************************************)
(* Properties of HybridRetriever.retrieve                                  *)
(***************************************************************************)

\* C11: retrieve runs the semantic and the keyword retrieval concurrently
\* (while it awaits, both have been scheduled) and fuses only after both
\* have completed; if either retrieval raises, retrieve raises (it leaves
\* its await only by raising) and returns no fused result.
C11_GatherThenFuseOrPropagate ==
    /\ [](/\ hybPc = "gathering" =>
                \A t \in RetrievalTasks : hybStatus[t] # "none"
          /\ hybPc = "returned" =>
                /\ \A t \in RetrievalTasks : hybStatus[t] = "done"
                /\ ~hybResult.isNone
                /\ hybResult.items =
                       Prefix(RrfFusion(hybReturned["semantic"], hybReturned["keyword"],
                                        rrfWeights[1], rrfWeights[2]), hybTopK)
          /\ (\E t \in RetrievalTasks : hybStatus[t] = "raised") =>
                hybPc # "returned" /\ hybResult.isNone
          /\ hybPc = "raised" =>
                (\E t \in RetrievalTasks : hybStatus[t] = "raised") /\ hybResult.isNone)
    /\ [][(hybPc = "gathering" /\ hybPc' # "gathering"
               /\ \E t \in RetrievalTasks : hybStatus[t] = "raised")
            => hybPc' = "raised"]_vars

\* C11 witness: the semantic retrieval returned a list, the keyword
\* retrieval raised, and retrieve has raised.
C11_Witness ==
    /\ hybPc = "raised"
    /\ hybStatus["semantic"] = "done" /\ hybReturned["semantic"] # <<>>
    /\ hybStatus["keyword"] = "raised"
    /\ hybResult.isNone

(***************************************************************************)
(* Properties of SemanticRetriever.retrieve                                *)
(***************************************************************************)

\* The result satisfies the filters: its document is the document asked
\* for, one of the documents asked for, and its section the section asked
\* for.
SatisfiesFilters(result, filters) ==
    /\ "document_id" \in DOMAIN filters => result.document_id = filters["document_id"]
    /\ "document_ids" \in DOMAIN filters => result.document_id \in filters["document_ids"]
    /\ "section" \in DOMAIN filters => result.section = filters["section"]

\* C12: every chunk returned by SemanticRetriever.retrieve called with a
\* filter (a document id, a set of document ids, or a section) satisfies
\* that filter.
C12_ReturnedChunksSatisfyFilter ==
    semPc = "returned" =>
        \A p \in 1..Len(semResult) : SatisfiesFilters(semResult[p], semFilters)

\* C12 witness: retrieve was called with a document id and returned a
\* chunk of another document.
C12_Witness ==
    /\ semPc = "returned"
    /\ "document_id" \in DOMAIN semFilters
    /\ \E p \in 1..Len(semResult) :
           semResult[p].document_id # semFilters["document_id"]

(***************************************************************************)
(* Properties of KeywordRetriever.retrieve                                 *)
(***************************************************************************)

\* The rows the statement selects, and the position of a chunk in them.
KwCandidates == KwWhere(kwRows, kwFilters)

KwPosition(chunk_id) ==
    CHOOSE i \in 1..Len(KwCandidates) : KwCandidates[i].id = chunk_id

KwRawScore(chunk_id) ==
    ScoreMilli(KwCandidates[KwPosition(chunk_id)], KwCandidates, kwQueryTerms, 1)

\* C13: KeywordRetriever.retrieve returns only candidates with a positive
\* BM25 score, each containing at least one query term; a returned score
\* is the raw score divided by the greatest raw score, so the first is 1
\* and all lie in (0, 1]; results are in descending score order, ties in
\* input order; a query without terms after tokenization yields [].
C13_PositiveNormalizedStableOrder ==
    kwPc = "returned" =>
        /\ kwQueryTerms = <<>> => kwResult = <<>>
        /\ \A p \in 1..Len(kwResult) :
               LET id == kwResult[p].chunk_id
                   sc == kwResult[p].score
               IN  /\ \E i \in 1..Len(KwCandidates) : KwCandidates[i].id = id
                   /\ KwRawScore(id) > 0
                   /\ Range(Tokenize(KwCandidates[KwPosition(id)].content))
                          \cap Range(kwQueryTerms) # {}
                   /\ \A i \in 1..Len(KwCandidates) :
                          /\ KwRawScore(KwCandidates[i].id) <= KwRawScore(kwResult[1].chunk_id)
                          /\ sc[1] * KwRawScore(kwResult[1].chunk_id)
                                 = KwRawScore(id) * sc[2]
                   /\ sc[1] > 0 /\ sc[1] <= sc[2]
        /\ kwResult # <<>> => kwResult[1].score = <<1, 1>>
        /\ \A p, q \in 1..Len(kwResult) :
               p < q =>
                   /\ ~RatLess(kwResult[p].score, kwResult[q].score)
                   /\ kwResult[p].score = kwResult[q].score
                         => KwPosition(kwResult[p].chunk_id) < KwPosition(kwResult[q].chunk_id)

\* C13 witness: of four candidates the two of equal, greatest score are
\* returned in input order, each with score 1.
C13_Witness ==
    /\ kwPc = "returned"
    /\ Len(kwResult) = 2
    /\ kwResult[1].chunk_id = "k1" /\ kwResult[2].chunk_id = "k4"
    /\ kwResult[1].score = <<1, 1>> /\ kwResult[2].score = <<1, 1>>
    /\ Len(KwCandidates) = 4

(***************************************************************************)
(* Properties of the reranker                                              *)
(***************************************************************************)

\* The candidate of the last call with the given chunk id.
CandidateOf(chunk_id) ==
    rkLast.results[CHOOSE i \in 1..Len(rkLast.results) :
                       rkLast.results[i].chunk_id = chunk_id]

ReturnedIds == {rkLast.returned[p].chunk_id : p \in 1..Len(rkLast.returned)}

\* The returned list holds min(top_k, n) different candidates of the call.
ReturnsTopKCandidates ==
    /\ Len(rkLast.returned) = Min(rkLast.top_k, Len(rkLast.results))
    /\ Cardinality(ReturnedIds) = Len(rkLast.returned)
    /\ \A id \in ReturnedIds : \E i \in 1..Len(rkLast.results) :
           rkLast.results[i].chunk_id = id

\* C14: if the cross-encoder model cannot be loaded, whatever the cause,
\* rerank does not raise: it returns the candidates ordered by their
\* pre-existing score, truncated to top_k.
C14_LoadFailureFallsBack ==
    rkLast.outcome \in (LoadOutcomes \ {"model"}) =>
        /\ rkLast.status = "returned"
        /\ ReturnsTopKCandidates
        /\ \A p \in 1..Len(rkLast.returned) :
               /\ rkLast.returned[p] = CandidateOf(rkLast.returned[p].chunk_id)
               /\ \A q \in (p + 1)..Len(rkLast.returned) :
                      rkLast.returned[p].score[1] >= rkLast.returned[q].score[1]

\* C14 witness: the load failed with an exception other than ImportError
\* and rerank raised.
C14_Witness ==
    /\ rkLast.outcome = "OSError"
    /\ rkLast.results # <<>>
    /\ rkLast.status = "raised"
    /\ rkModel = "none"

\* C15: in fallback mode rerank over n candidates returns the
\* min(top_k, n) candidates of highest pre-existing score, in descending
\* score order, each unchanged; scores [0.9, 0.5, 0.2] with top_k = 2
\* return the 0.9 and the 0.5 candidate in that order.
C15_FallbackTopKByExistingScore ==
    rkLast.branch = "fallback" =>
        /\ rkLast.status = "returned"
        /\ ReturnsTopKCandidates
        /\ \A p \in 1..Len(rkLast.returned) :
               /\ rkLast.returned[p] = CandidateOf(rkLast.returned[p].chunk_id)
               /\ \A q \in (p + 1)..Len(rkLast.returned) :
                      rkLast.returned[p].score[1] >= rkLast.returned[q].score[1]
               /\ \A i \in 1..Len(rkLast.results) :
                      rkLast.results[i].chunk_id \notin ReturnedIds
                          => rkLast.results[i].score[1] <= rkLast.returned[p].score[1]
        /\ (/\ [i \in 1..Len(rkLast.results) |-> rkLast.results[i].score[1]] = <<9, 5, 2>>
            /\ rkLast.top_k = 2)
              => rkLast.returned = <<rkLast.results[1], rkLast.results[2]>>

\* C15 witness: the fallback has ranked scores 0.5, 0.2, 0.9 with
\* top_k = 2 and returned the 0.9 and the 0.5 candidate.
C15_Witness ==
    /\ rkLast.branch = "fallback"
    /\ [i \in 1..Len(rkLast.results) |-> rkLast.results[i].score[1]] = <<5, 2, 9>>
    /\ rkLast.top_k = 2
    /\ rkLast.returned = <<rkLast.results[3], rkLast.results[1]>>

\* The raw relevance score predicted for the candidate with a chunk id.
RawOf(chunk_id) ==
    rkLast.scores[CHOOSE i \in 1..Len(rkLast.results) :
                      rkLast.results[i].chunk_id = chunk_id]

RawScoresOfCall == {rkLast.scores[i] : i \in 1..Len(rkLast.scores)}
RawMax == CHOOSE m \in RawScoresOfCall : \A x \in RawScoresOfCall : x <= m
RawMin == CHOOSE m \in RawScoresOfCall : \A x \in RawScoresOfCall : m <= x

\* C16: with a loaded model rerank returns the min(top_k, n) candidates
\* of highest raw relevance score in descending order; each returned
\* score is (raw - min) / (max - min) over all candidates, in [0, 1];
\* when all raw scores are equal the denominator is 1 and nothing is
\* divided by zero.
C16_ModelTopKMinMaxNormalized ==
    rkLast.branch = "model" =>
        /\ rkLast.status = "returned"
        /\ ReturnsTopKCandidates
        /\ \A p \in 1..Len(rkLast.returned) :
               LET id == rkLast.returned[p].chunk_id
                   sc == rkLast.returned[p].score
               IN  /\ \A q \in (p + 1)..Len(rkLast.returned) :
                          RawOf(id) >= RawOf(rkLast.returned[q].chunk_id)
                   /\ \A i \in 1..Len(rkLast.results) :
                          rkLast.results[i].chunk_id \notin ReturnedIds
                              => rkLast.scores[i] <= RawOf(id)
                   /\ sc[2] > 0
                   /\ sc[1] >= 0 /\ sc[1] <= sc[2]
                   /\ sc[1] * (IF RawMax # RawMin THEN RawMax - RawMin ELSE 1)
                          = (RawOf(id) - RawMin) * sc[2]

\* C16 witness: three candidates of equal, non-zero raw score were
\* reranked; the scores returned are 0 / 1.
C16_Witness ==
    /\ rkLast.branch = "model"
    /\ rkLast.scores = <<-2, -2, -2>>
    /\ Len(rkLast.returned) >= 2
    /\ \A p \in 1..Len(rkLast.returned) : rkLast.returned[p].score = <<0, 1>>

\* C17: constructing a reranker loads nothing; the first rerank call with
\* candidates attempts the load and its outcome is cached, so that over
\* any sequence of rerank calls the load is attempted at most once.
C17_LoadAttemptedAtMostOnce ==
    /\ rkCalls = 0 => (rkModel = "none" /\ rkLoadAttempts = 0)
    /\ rkLoadAttempts <= 1

\* C17 witness: two calls have run one after the other, each attempted
\* the load, and nothing is cached.
C17_Witness ==
    /\ rkCalls = 2
    /\ ~rkOverlap
    /\ rkLoadAttempts = 2
    /\ rkModel = "none"

\* C18: when several rerank calls make their first use of the model
\* concurrently, the cross-encoder model is loaded at most once.
C18_ConcurrentFirstUseLoadsOnce ==
    rkLoads <= 1

\* C18 witness: two calls were pending together before the model was
\* set, both have run, and the model was loaded once.
C18_Witness ==
    /\ rkOverlap
    /\ rkCalls = 2
    /\ rkModel = "loaded"
    /\ rkLoadAttempts = 1
    /\ rkLoads = 1

(***************************************************************************)
(* Properties of the chunker                                               *)
(***************************************************************************)

\* The sentences of the document chunk was given.
DocSentences == SplitSentences(DocText(chDoc))

\* The sections whose chunks are in the result.
ChunkSections == {chChunks[j].section : j \in 1..Len(chChunks)}

\* C19: the chunks chunk returns carry chunk_index 0, 1, 2, ... equal to
\* their position in the returned list, with or without sections, the
\* numbering going on from one section to the next.
C19_ChunkIndexIsListPosition ==
    chPc = "done" =>
        \A j \in 1..Len(chChunks) : chChunks[j].chunk_index = j - 1

\* chunk returned the chunks of two sections, the second section's
\* numbered after the first's.
C19_Witness ==
    /\ chPc = "done"
    /\ chSectioned
    /\ Len(chChunks) >= 3
    /\ chChunks[1].section = SectionNames[1]
    /\ chChunks[Len(chChunks)].section = SectionNames[2]
    /\ chChunks[Len(chChunks)].chunk_index = Len(chChunks) - 1

\* C20: when no sentence of the document has more than chunk_size
\* tokens, every chunk has a token_count of at most chunk_size.
C20_TokenCountWithinChunkSize ==
    (/\ chPc = "done"
     /\ \A i \in 1..Len(DocSentences) : CountTokens(DocSentences[i]) <= chSize)
        => \A j \in 1..Len(chChunks) : chChunks[j].token_count <= chSize

\* chunk returned a chunk that starts with the overlap of the chunk
\* before it, of a document whose sentences all fit chunk_size.
C20_Witness ==
    /\ chPc = "done"
    /\ \A i \in 1..Len(DocSentences) : CountTokens(DocSentences[i]) <= chSize
    /\ \E j \in 2..Len(chChunks) :
         /\ chChunks[j].section = chChunks[j - 1].section
         /\ Len(chChunks[j].content) >= 2
         /\ chChunks[j].content[1] \in Range(chChunks[j - 1].content)

\* Chunk j + 1 was emitted after chunk j by the same run of _chunk_text.
FollowsInText(j) ==
    /\ j \in 1..(Len(chChunks) - 1)
    /\ chChunks[j].section = chChunks[j + 1].section

\* The sentences of chunk j + 1 that come from chunk j: the seed of the
\* buffer started when chunk j was emitted.
SeedAfter(j) ==
    LET prev == chChunks[j].content
        next == chChunks[j + 1].content
    IN  SelectSeq(next, LAMBDA piece : piece.id <= prev[Len(prev)].id)

IsSuffix(s, t) ==
    /\ Len(s) <= Len(t)
    /\ \A i \in 1..Len(s) : s[i] = t[Len(t) - Len(s) + i]

\* C24: the buffer started after a chunk was emitted begins with trailing
\* sentences of that chunk, in their original order, of at most
\* chunk_overlap tokens together, followed by sentences that are new; it
\* has no seed exactly when the last sentence of the chunk alone has more
\* than chunk_overlap tokens.
C24_SeedIsTrailingSentencesWithinOverlap ==
    chPc = "done" =>
        \A j \in 1..(Len(chChunks) - 1) :
            FollowsInText(j) =>
                LET prev == chChunks[j].content
                    next == chChunks[j + 1].content
                    seed == SeedAfter(j)
                IN  /\ IsSuffix(seed, prev)
                    /\ seed = SubSeq(next, 1, Len(seed))
                    /\ CountTokens(seed) <= chOverlap
                    /\ (seed = <<>>) <=> (prev[Len(prev)].tokens > chOverlap)

\* chunk returned a chunk followed by one without a seed, and a chunk
\* followed by one seeded with two sentences.
C24_Witness ==
    /\ chPc = "done"
    /\ \E j \in 1..(Len(chChunks) - 1) :
         FollowsInText(j) /\ SeedAfter(j) = <<>>
    /\ \E j \in 1..(Len(chChunks) - 1) :
         FollowsInText(j) /\ Len(SeedAfter(j)) = 2

\* The texts chunk ran _chunk_text on: each section's content, or the
\* whole document.  Each is [section, sentences].
ChunkedTexts ==
    IF chSectioned /\ chDoc # <<>>
    THEN {[section |-> chDoc[k].name, sentences |-> Join(SplitSentences(chDoc[k].content))] :
              k \in 1..Len(chDoc)}
    ELSE {[section |-> None, sentences |-> Join(SplitSentences(DocText(chDoc)))]}

\* The contents of the chunks of a section, in the order returned.
ContentsOf(section) ==
    LET of == SelectSeq(chChunks, LAMBDA chunk : chunk.section = section)
    IN  [j \in 1..Len(of) |-> of[j].content]

\* content is the sentences first..last of sentences, for some first <= last.
IsRunOf(content, sentences, first, last) ==
    /\ 1 <= first
    /\ first <= last
    /\ last <= Len(sentences)
    /\ content = SubSeq(sentences, first, last)

\* C30: chunking a text loses no sentence and keeps the order: every
\* chunk is a run of consecutive sentences of the text, every sentence is
\* in some chunk, and from one chunk to the next the runs move forward.
C30_NoSentenceLostOrderKept ==
    chPc = "done" =>
        \A text \in ChunkedTexts :
            LET sentences == text.sentences
                contents == ContentsOf(text.section)
                n == Len(sentences)
            IN  /\ \A i \in 1..n : \E j \in 1..Len(contents) :
                       sentences[i] \in Range(contents[j])
                /\ \A j \in 1..Len(contents) :
                       \E first, last \in 1..n :
                           IsRunOf(contents[j], sentences, first, last)
                /\ \A j \in 1..(Len(contents) - 1) :
                       LET a == contents[j]
                           b == contents[j + 1]
                       IN  /\ a[1].id <= b[1].id
                           /\ a[Len(a)].id < b[Len(b)].id

\* chunk returned three chunks of one text, among them a sentence longer
\* than chunk_size and a chunk that repeats a sentence of the one before.
C30_Witness ==
    /\ chPc = "done"
    /\ ~chSectioned
    /\ Len(chChunks) >= 3
    /\ \E j \in 1..Len(chChunks) : chChunks[j].token_count > chSize
    /\ \E j \in 1..(Len(chChunks) - 1) : SeedAfter(j) # <<>>
    /\ \E i \in 1..Len(DocSentences) : CountTokens(DocSentences[i]) > chSize

(***************************************************************************)
(* Properties of the embedder                                              *)
(***************************************************************************)

\* C21: once a request to the upstream has failed, the call has raised
\* EmbeddingError: it is given no other error, no value, and the request
\* is not sent again.
C21_UpstreamFailureRaisesEmbeddingError ==
    embFailures > 0 =>
        /\ embPc = "raised"
        /\ embResult.status = "raised"
        /\ embResult.error = "EmbeddingError"
        /\ embFailures = 1

\* A call whose requests all failed has ended.
C21_Witness ==
    /\ embPc = "raised"
    /\ embFailures > 0
    /\ embFailures = embUpstream

\* C25: embed_batch awaits one request at a time; each carries the next
\* texts after those whose embeddings it holds, at least 1 and at most
\* 100 of them; a result returned has one embedding per text, the i-th
\* that of the i-th text.
C25_SubBatchesSequentialResultAligned ==
    embOp = "embed_batch" =>
        /\ (embPc = "requesting") <=> (embBatch # NoBatch)
        /\ embPc = "requesting" =>
               /\ embBatch.first = Len(embAll) + 1
               /\ embBatch.first <= embBatch.last
               /\ embBatch.last <= embTexts
               /\ embBatch.last - embBatch.first + 1 <= 100
        /\ embPc = "returned" =>
               /\ Len(embResult.value) = embTexts
               /\ \A k \in 1..embTexts : embResult.value[k] = k

\* embed_batch returned the embeddings of more than 200 texts after three
\* requests.
C25_Witness ==
    /\ embOp = "embed_batch"
    /\ embPc = "returned"
    /\ embTexts > 200
    /\ embUpstream = 3
    /\ Len(embResult.value) = embTexts

(***************************************************************************)
(* Properties of the connectors' search                                    *)
(***************************************************************************)

\* C22: a call of a connector's search makes at most 3 attempts; when an
\* attempt succeeds the call returns that attempt's result, all attempts
\* before it having failed, and nothing follows; when 3 attempts have
\* failed the call has raised, and it raises in no other case; a call that
\* has ended makes no further attempt.
C22_AtMostThreeAttemptsThenRaised ==
    /\ [](/\ conAttempts <= 3
          /\ conPc = "returned" =>
                 /\ conResult.status = "returned"
                 /\ conResult.value = conUpstream
                 /\ Len(conFailures) = conAttempts - 1
          /\ (Len(conFailures) = 3) <=> (conPc = "raised")
          /\ conPc = "raised" =>
                 /\ conResult.status = "raised"
                 /\ conResult.cause = conFailures[3]
                 /\ conResult.cause \in {"ConnectorError", "RateLimitError"})
    /\ [][(conPc \in {"returned", "raised"}) => UNCHANGED connVars]_vars

\* A call raised after a connector error, a rate limit and another
\* connector error; or returned two papers on its third attempt.
C22_Witness ==
    \/ /\ conPc = "raised"
       /\ conFailures = <<"ConnectorError", "RateLimitError", "ConnectorError">>
    \/ /\ conPc = "returned"
       /\ conAttempts = 3
       /\ Len(conResult.value) = 2

(***************************************************************************)
(* Properties of the pipeline                                              *)
(***************************************************************************)

\* The calls of a query that reranks, and of one that does not.
StepsWithRerank == <<"retrieve", "retrieve", "rerank", "rerank", "synthesize", "synthesize">>
StepsWithoutRerank == <<"retrieve", "retrieve", "synthesize", "synthesize">>

\* log follows steps: call and return of each step in turn, the last
\* entry possibly a raise in place of a return.
FollowsSteps(log, steps) ==
    /\ Len(log) <= Len(steps)
    /\ \A k \in 1..Len(log) :
           /\ log[k].step = steps[k]
           /\ IF k % 2 = 1 THEN log[k].event = "called"
              ELSE \/ log[k].event = "returned"
                   \/ log[k].event = "raised" /\ k = Len(log)

\* C23: query calls retrieve, then rerank, then synthesize, each after the
\* one before has returned; when retrieve returned nothing, rerank is not
\* called and synthesize is called with an empty context; else the context
\* is what rerank returned.
C23_RetrieveRerankSynthesizeInOrder ==
    /\ FollowsSteps(plLog, StepsWithRerank) \/ FollowsSteps(plLog, StepsWithoutRerank)
    /\ ~plRetrieved.isNone =>
           (plRetrieved.items = <<>>) <=>
               (\A k \in 1..Len(plLog) : plLog[k].step # "rerank")
    /\ plPc \in {"synthesizing", "returned"} =>
           /\ ~plRetrieved.isNone
           /\ ~plContext.isNone
           /\ plRetrieved.items = <<>> => plContext.items = <<>>
           /\ plContext = plReranked
    /\ plPc = "returned" => plLog[Len(plLog)] = [step |-> "synthesize", event |-> "returned"]

\* query returned after an empty retrieval; its synthesizer was called,
\* its reranker was not.
C23_Witness ==
    /\ plPc = "returned"
    /\ plRetrieved.items = <<>>
    /\ plContext.items = <<>>
    /\ Len(plLog) = 4
    /\ plLog[3] = [step |-> "synthesize", event |-> "called"]

(***************************************************************************)
(* Properties of the ingestion                                             *)
(***************************************************************************)

\* C26: after a run that completed, the chunks stored for the document
\* are those of that run and no others, and no two of them have the same
\* chunk_index.
C26_ReingestionReplacesChunks ==
    (ingPc = "idle" /\ ingOutcome = "returned") =>
        /\ \A k \in 1..Len(ingStored) : ingStored[k].run = ingRuns
        /\ Len(ingStored) = ingChunks
        /\ \A k, l \in 1..Len(ingStored) :
               k # l => ingStored[k].chunk_index # ingStored[l].chunk_index

\* A second run completed for a document whose first run had stored
\* chunks.
C26_Witness ==
    /\ ingPc = "idle"
    /\ ingOutcome = "returned"
    /\ ingRuns = 2
    /\ ingChunks > 0
    /\ \E k \in 1..Len(ingStored) : ingStored[k].run = 1

IsPrefixOf(s, t) == Len(s) <= Len(t) /\ s = SubSeq(t, 1, Len(s))

\* The query has none of the comparative words or factual phrases.
IsExploratory(query) ==
    LET lowered == StrLower(query)
    IN  \A word \in ComparativeWords \cup FactualPhrases : ~Contains(lowered, word)

\* C27: the nodes run in the order classify_query, search_internal,
\* search_external (or not), synthesize; once search_internal has
\* returned, search_external is among them if and only if external search
\* is enabled and fewer than 3 internal results were found or the query
\* was classified as exploratory.
C27_StepsInOrderExternalWhenNeeded ==
    /\ \/ IsPrefixOf(qaLog, <<"classify_query", "search_internal", "search_external",
                              "synthesize">>)
       \/ IsPrefixOf(qaLog, <<"classify_query", "search_internal", "synthesize">>)
    /\ Len(qaLog) >= 3 =>
           (qaLog[3] = "search_external") <=>
               (qaIncludeExternal /\ (qaInternal < 3 \/ qaQueryType = "exploratory"))
    /\ Len(qaLog) >= 2 => (qaQueryType = "exploratory" <=> IsExploratory(qaQuery))
    /\ qaPc = "end" => qaLog[Len(qaLog)] = "synthesize"

\* The workflow ended after an external search made for an exploratory
\* query with 3 internal results.
C27_Witness ==
    /\ qaPc = "end"
    /\ qaInternal = 3
    /\ qaQueryType = "exploratory"
    /\ qaLog = <<"classify_query", "search_internal", "search_external", "synthesize">>

(***************************************************************************)
(* Properties of the synthesizer                                           *)
(***************************************************************************)

RECURSIVE Pow10(_)
Pow10(e) == IF e = 0 THEN 1 ELSE 10 * Pow10(e - 1)

RECURSIVE DecimalSum(_, _, _)
\* The number written by the digits s[lo..hi], most significant first.
DecimalSum(s, lo, hi) ==
    IF lo > hi THEN 0
    ELSE DigitValue(s[lo]) * Pow10(hi - lo) + DecimalSum(s, lo + 1, hi)

\* The ids k in 1..n for which the text holds a marker "[" digits "]"
\* whose digits write k.
CitedIds(answer, n) ==
    {k \in 1..n :
        \E i \in 1..Len(answer), j \in 1..Len(answer) :
            /\ i + 1 < j
            /\ answer[i] = "[" /\ answer[j] = "]"
            /\ \A m \in (i + 1)..(j - 1) : answer[m] \in Digits
            /\ DecimalSum(answer, i + 1, j - 1) = k}

\* C1: after a synthesis over a context of n items, the citations are
\* exactly one Citation per distinct bracketed integer of the answer that
\* lies in 1..n, in ascending id order, each built from the context entry
\* of its id; an id outside 1..n yields no citation and a repeated id one.
C1_CitationsExactlyCitedIds ==
    (synPc = "done" /\ Len(synContext) > 0) =>
        LET cs == synResult.citations
            ids == CitedIds(synResult.answer, Len(synContext))
        IN  /\ Len(cs) = Cardinality(ids)
            /\ \A p \in 1..Len(cs) :
                   /\ cs[p].citation_id \in ids
                   /\ cs[p].chunk_id = synContext[cs[p].citation_id].chunk_id
                   /\ cs[p].document_id
                        = synContext[cs[p].citation_id].document_id
            /\ \A p, q \in 1..Len(cs) :
                   p < q => cs[p].citation_id < cs[q].citation_id

\* C1 witness: an answer with two markers, id 2 cited before id 1, over a
\* two-item context, has produced the citations 1 and 2.
C1_Witness ==
    /\ synPc = "done"
    /\ Len(synContext) = 2
    /\ synResult.answer = <<"[", "2", "]", "[", "1", "]">>
    /\ Len(synResult.citations) = 2

\* C2: a synthesize call with an empty context returns the fixed
\* "insufficient information" answer with confidence 0.0 and no citations,
\* makes no completion request and leaves the client as it was (a fresh
\* synthesizer's client is not created).
C2_EmptyContextShortCircuits ==
    [][(synPc \in {"idle", "done", "raised"} /\ synContext' = <<>>) =>
          /\ synPc' = "done"
          /\ synResult'.answer = "insufficient information"
          /\ synResult'.confidence = <<0, 1>>
          /\ synResult'.citations = <<>>
          /\ synLlmCalls' = 0
          /\ synClient' = synClient]_vars

\* C2 witness: an empty-context call has returned on a synthesizer whose
\* client was never created.
C2_Witness ==
    /\ synPc = "done"
    /\ synContext = <<>>
    /\ synResult = EmptyContextResult
    /\ synClient = "none"
    /\ synLlmCalls = 0

====
